---- MODULE Spec2Model ----
(***************************************************************************)
(* Positioning and order-execution engine of autoassets.                   *)
(*                                                                         *)
(* Money is counted in cents.  A premium is the per-unit price of an       *)
(* option, in cents; a strike and a stock price are in dollars.  Python    *)
(* floats are modelled as exact rationals [n, d] (d > 0, lowest terms), so *)
(* float rounding is outside the model.                                    *)
(***************************************************************************)
EXTENDS Integers, Sequences, FiniteSets, TLC

(***************************************************************************)
(* Exact rational arithmetic.                                              *)
(***************************************************************************)
Abs(x) == IF x < 0 THEN -x ELSE x

Sign(x) == IF x < 0 THEN -1 ELSE 1

Min(a, b) == IF a <= b THEN a ELSE b

Max(a, b) == IF a >= b THEN a ELSE b

RECURSIVE Gcd(_, _)
Gcd(a, b) == IF b = 0 THEN a ELSE Gcd(b, a % b)

Rat(n, d) ==
    LET s == IF d < 0 THEN -1 ELSE 1
        g == Gcd(Abs(n), Abs(d))
    IN  [n |-> (s * n) \div g, d |-> (s * d) \div g]

R(i) == [n |-> i, d |-> 1]

RAdd(a, b) == Rat(a.n * b.d + b.n * a.d, a.d * b.d)

RSub(a, b) == Rat(a.n * b.d - b.n * a.d, a.d * b.d)

RMul(a, b) == Rat(a.n * b.n, a.d * b.d)

RDiv(a, b) == Rat(a.n * b.d, a.d * b.n)

RLt(a, b) == a.n * b.d < b.n * a.d

RLe(a, b) == a.n * b.d <= b.n * a.d

RMax(a, b) == IF RLt(a, b) THEN b ELSE a

\* Python's int(x): truncation toward zero.
RInt(a) == IF a.n >= 0 THEN a.n \div a.d ELSE -((-a.n) \div a.d)

\* The element of a singleton set.
The(S) == CHOOSE x \in S : TRUE

(***************************************************************************)
(* Program constants (ratio2.py).                                          *)
(***************************************************************************)
UNITS_PER_CONTRACT == 100

\* $1.15 per contract, in cents.
COMMISSION_PER_CONTRACT == 115

\* fraction of premium; the source sets 0.0.
NONIDEAL_ADJUSTMENT_FRACTION == 0

\* $0.15, in cents.
MAX_BUY_MARGIN_PREMIUM == 15

\* 3.0 * (0.05 + 0.15) dollars, in cents.
MIN_SELL_PREMIUM == 60

(***************************************************************************)
(* A dictionary key that may be missing is an optional value: <<>> when    *)
(* the key is absent, <<v>> when it is present with value v.               *)
(***************************************************************************)
None == <<>>

Some(v) == <<v>>

Has(o) == Len(o) = 1

Val(o) == o[1]

(***************************************************************************)
(* Bounds of the model.                                                    *)
(***************************************************************************)
\* Largest |quantity| of an order and of a leg or share position.
MaxQty == 2

\* Largest quantity of a spread order placed on its own.
MaxSpreadQty == 1

\* Orders and market-data events of a run of the ledger alone.
MaxLedgerSteps == 3

\* Number of operations in a run of the public operations of a ratio spread
\* asset, and the largest day its clock reaches.
MaxPublicSteps == 4

MaxPublicDay == 2

\* Number of operations in a run of a ratio spread asset.
MaxSteps == 2

\* Number of operations in a run of an accumulative asset.
MaxAccSteps == 5

\* Largest day reached by the clock.
MaxDay == 1

\* Largest |quantity| of the leg of a ledger drawn for a closing order.
MaxLegQty == 3

\* Largest number of orders on one contract that the broker rejects before
\* it accepts one, during one scan.
MaxRejects == 2

\* Passes over one side of the ledger after which a scan still running is
\* reported as not ending.
MaxPasses == 5

\* Largest number of legs of a ledger drawn for a scan.
MaxLegs == 3

\* Largest day reached by the clock while a drawn holding is closed.
MaxNow == 3

\* Number of operations applied to a drawn holding.
MaxScanSteps == 3

\* Largest |amount| of a drawn budget list.
MaxAmount == 2

\* Largest length of a drawn budget list.
MaxLen == 3

\* Operations on an asset of a drawn budget configuration.
MaxConfigSteps == 2

\* Queries applied to a drawn holding.
MaxQuerySteps == 2

\* Number of operations in a run of an accumulative asset through a rally
\* of the underlying.
MaxRallySteps == 5

\* Largest share position held through a rally of the underlying.
MaxShares == 3

\* Largest number of streams the trader connects to.
MaxStreams == 2

\* Number of assets the trader runs.
MaxAssets == 2

\* Largest number of market-data events received while listening.
MaxEvents == 2

\* Largest number of quote patches in one event.
MaxPatches == 2

(***************************************************************************)
(* The option chain: contracts with fixed terms and quoted prices.         *)
(* Strikes are in cents, opex in days, delta in hundredths, bid and ask in *)
(* cents per unit.                                                         *)
(***************************************************************************)
Puts == {"P1", "P2", "P3"}

Calls == {"C1", "C2", "C3"}

\* The contracts quoted in the chain.
Symbols == Puts \cup {"C1"}

ContractType(s) == IF s \in Calls THEN "CALL" ELSE "PUT"

Strike(s) ==
    CASE s = "P1" -> 100 [] s = "P2" -> 200 [] s = "P3" -> 300
      [] s = "C1" -> 100 [] s = "C2" -> 200 [] s = "C3" -> 300

\* The puts of the chain expire on day 2, the calls on day 3.
Opex(s) == IF s \in Calls THEN 3 ELSE 2

\* Two snapshots of the market data: the quotes of the chain's contracts and
\* the quote of the underlying (cents per share).  The underlying is lower in
\* the second.
QuotesHigh ==
    [P1 |-> [bid |-> 0, ask |-> 5, delta |-> -1],
     P2 |-> [bid |-> 10, ask |-> 15, delta |-> -5],
     P3 |-> [bid |-> 70, ask |-> 80, delta |-> -20],
     C1 |-> [bid |-> 120, ask |-> 130, delta |-> 50],
     stock |-> [bid |-> 24900, ask |-> 25000, mark |-> 24950]]

QuotesLow ==
    [P1 |-> [bid |-> 10, ask |-> 15, delta |-> -5],
     P2 |-> [bid |-> 40, ask |-> 50, delta |-> -15],
     P3 |-> [bid |-> 100, ask |-> 120, delta |-> -30],
     C1 |-> [bid |-> 100, ask |-> 120, delta |-> 40],
     stock |-> [bid |-> 19900, ask |-> 20000, mark |-> 19950]]

\* One row of the option chain: the contract snapshot handed to an order.
Contract(quotes, s) ==
    [symbol |-> s, strike |-> Strike(s), contract_type |-> ContractType(s),
     opex |-> Opex(s), bid |-> quotes[s].bid, ask |-> quotes[s].ask,
     delta |-> quotes[s].delta]

\* option_chain_db[ticker] and quote_db[ticker] of a snapshot.
Market(q) ==
    [option_chain |-> [s \in Symbols |-> Contract(q, s)], quote |-> q.stock]

Markets == { Market(QuotesHigh), Market(QuotesLow) }

(***************************************************************************)
(* State.                                                                  *)
(***************************************************************************)
VARIABLES
    structure,      \* positioning variant of the asset: "ratio2" or "accumulative"
    enable_trades,  \* positioning['enable_trades']
    budget,         \* asset['budget']: a scalar number of cents, or the list or
                    \* the entry that the budget resolver is applied to
    market,         \* the option chain and the quote of the underlying
    asset,          \* the asset's runtime fields, each an optional value
    now,            \* the current day
    op,             \* the operation performed last, its inputs and its outcome
    steps,          \* number of operations performed
    engine          \* the trader process (bin/asset_trader.py): its position,
                    \* the stop flag, its streams, the stored assets and the
                    \* quote event it is processing

vars == <<structure, enable_trades, budget, market, asset, now, op, steps, engine>>

\* The trader process where it is not part of the behaviours.
EngineOff == [pc |-> "off"]

(***************************************************************************)
(* Leg ledger (ratio2.py).                                                 *)
(***************************************************************************)
EmptyDb == [s \in {} |-> {}]

\* _init_leg: a new ledger entry with zero quantity and zero cost.  The
\* creation time, which the program never reads, is left out.
InitLeg(db, leg, t) ==
    [s \in DOMAIN db \cup {leg.symbol} |->
        IF s = leg.symbol
        THEN [opex |-> leg.opex, strike |-> leg.strike,
              contract_type |-> leg.contract_type,
              shares_per_contract |-> UNITS_PER_CONTRACT,
              cost |-> R(0), quantity |-> 0,
              last_trade_price |-> None]
        ELSE db[s]]

\* del asset['leg_db'][symbol]
DelLeg(db, symbol) == [s \in DOMAIN db \ {symbol} |-> db[s]]

\* _leg_dataframe: the ledger as a table indexed by symbol (empty when the
\* asset has no leg_db), and its call-side and put-side views.
LegDataframe(a) == IF Has(a.leg_db) THEN Val(a.leg_db) ELSE EmptyDb

SideDf(leg_df, type) ==
    [s \in {x \in DOMAIN leg_df : leg_df[x].contract_type = type} |-> leg_df[s]]

CallDf(leg_df) == SideDf(leg_df, "CALL")

PutDf(leg_df) == SideDf(leg_df, "PUT")

(***************************************************************************)
(* Order executor (ratio2.py).  An executor returns the asset after the    *)
(* call, the returned value ("True", "False", or "raise" when an exception *)
(* leaves the function) and the broker calls it made.                      *)
(***************************************************************************)
\* ClosingProfit without the commission of the closed contracts.
ClosingProfitNoCommission(position_df, closing_contracts, sign, premium) ==
    LET closing_units == position_df.shares_per_contract * closing_contracts
        unit_cost == RDiv(position_df.cost,
                          R(position_df.quantity * position_df.shares_per_contract))
    IN  RMul(R(closing_units),
             RMul(R(sign),
                  RSub(unit_cost,
                       R(premium * (1 + sign * NONIDEAL_ADJUSTMENT_FRACTION)))))

\* Average-cost profit of closing `closing_contracts` contracts of
\* position_df at `premium`; sign is +1 for a buy, -1 for a sell.
ClosingProfit(position_df, closing_contracts, sign, premium) ==
    LET closing_units == position_df.shares_per_contract * closing_contracts
        unit_cost == RDiv(position_df.cost,
                          R(position_df.quantity * position_df.shares_per_contract))
    IN  RMul(R(closing_units),
             RSub(RMul(R(sign),
                       RSub(unit_cost,
                            R(premium * (1 + sign * NONIDEAL_ADJUSTMENT_FRACTION)))),
                  Rat(COMMISSION_PER_CONTRACT, position_df.shares_per_contract)))

\* SlippagePerContract leaving the commission out.
SlippagePerContractNoCommission(premium, other_premium) ==
    RMul(Rat(Abs(premium * (1 + NONIDEAL_ADJUSTMENT_FRACTION) - other_premium), 2),
         R(UNITS_PER_CONTRACT))

\* Half the bid/ask spread per contract plus commission.
SlippagePerContract(premium, other_premium) ==
    RAdd(RMul(Rat(Abs(premium * (1 + NONIDEAL_ADJUSTMENT_FRACTION) - other_premium), 2),
              R(UNITS_PER_CONTRACT)),
         R(COMMISSION_PER_CONTRACT))

\* UpdateLeg keeping a leg whose quantity reaches 0.
UpdateLegKeepZero(db, symbol, quantity, premium, profit) ==
    [db EXCEPT ![symbol].quantity = @ + quantity,
               ![symbol].last_trade_price = Some(premium),
               ![symbol].cost =
                   RAdd(@, RAdd(profit,
                                R(quantity * (UNITS_PER_CONTRACT * premium
                                              + Sign(quantity) * COMMISSION_PER_CONTRACT))))]

\* UpdateLeg leaving the realized profit of the closed contracts out of the
\* cost of the leg.
UpdateLegCostOfTrade(db, symbol, quantity, premium, profit) ==
    IF db[symbol].quantity + quantity = 0
    THEN DelLeg(db, symbol)
    ELSE [db EXCEPT ![symbol].quantity = @ + quantity,
                    ![symbol].last_trade_price = Some(premium),
                    ![symbol].cost =
                        RAdd(@, R(quantity * (UNITS_PER_CONTRACT * premium
                                              + Sign(quantity) * COMMISSION_PER_CONTRACT)))]

\* The quantity update of one leg: the leg is deleted when its quantity
\* reaches 0, otherwise its cost and last trade price are updated.
UpdateLeg(db, symbol, quantity, premium, profit) ==
    LET new_quantity == db[symbol].quantity + quantity
        cost == RAdd(profit,
                     R(quantity * (UNITS_PER_CONTRACT * premium
                                    * (1 + Sign(quantity) * NONIDEAL_ADJUSTMENT_FRACTION)
                                   + Sign(quantity) * COMMISSION_PER_CONTRACT)))
    IN  IF new_quantity = 0
        THEN DelLeg(db, symbol)
        ELSE [db EXCEPT ![symbol].quantity = new_quantity,
                        ![symbol].last_trade_price = Some(premium),
                        ![symbol].cost = RAdd(@, cost)]

\* BrokerRejects taking every submission as accepted.
BrokerRejectsNever(submits, broker_ok) == FALSE

\* The order is abandoned when it was submitted and the broker reported
\* failure.
BrokerRejects(submits, broker_ok) == submits /\ ~broker_ok

\* The broker is called for a single order when trading is enabled and the
\* order is a buy or sells at MIN_SELL_PREMIUM or more.
SingleSubmits(enabled, quantity, premium) ==
    enabled /\ (quantity > 0 \/ premium >= MIN_SELL_PREMIUM)

\* SingleDirection taking every order as an opening order.
SingleDirectionOpening(leg_df, symbol, quantity) ==
    IF quantity > 0 THEN "BUY_TO_OPEN" ELSE "SELL_TO_OPEN"

\* The direction of a single-leg order: opening unless the ledger holds a
\* leg of the contract on the other side.
SingleDirection(leg_df, symbol, quantity) ==
    IF quantity > 0
    THEN IF symbol \notin DOMAIN leg_df \/ leg_df[symbol].quantity > 0
         THEN "BUY_TO_OPEN" ELSE "BUY_TO_CLOSE"
    ELSE IF symbol \notin DOMAIN leg_df \/ leg_df[symbol].quantity < 0
         THEN "SELL_TO_OPEN" ELSE "SELL_TO_CLOSE"

\* _place_single_order
PlaceSingleOrder(a, enabled, quantity, contract_df, broker_ok, t) ==
    LET leg_df == LegDataframe(a)
        symbol == contract_df.symbol
        direction == SingleDirection(leg_df, symbol, quantity)
        premium == IF quantity > 0 THEN contract_df.ask ELSE contract_df.bid
        other_premium == IF quantity > 0 THEN contract_df.bid ELSE contract_df.ask
        submits == SingleSubmits(enabled, quantity, premium)
        broker == IF submits
                  THEN << [symbol |-> symbol, direction |-> direction,
                           quantity |-> Abs(quantity), ok |-> broker_ok] >>
                  ELSE << >>
        db0 == IF Has(a.leg_db) THEN Val(a.leg_db) ELSE EmptyDb
        profit0 == IF Has(a.profit) THEN Val(a.profit) ELSE R(0)
        db1 == IF symbol \in DOMAIN db0 THEN db0 ELSE InitLeg(db0, contract_df, t)
        profit == IF direction \in {"BUY_TO_CLOSE", "SELL_TO_CLOSE"}
                  THEN ClosingProfit(leg_df[symbol],
                                     Min(Abs(quantity), Abs(leg_df[symbol].quantity)),
                                     Sign(quantity), premium)
                  ELSE R(0)
        db2 == UpdateLeg(db1, symbol, quantity, premium, profit)
        a1 == [a EXCEPT !.leg_db = Some(db2), !.profit = Some(RAdd(profit0, profit))]
        slip == RMul(SlippagePerContract(premium, other_premium), R(Abs(quantity)))
    IN  IF quantity = 0
        THEN [asset |-> a, ret |-> "False", broker |-> << >>]
        ELSE IF BrokerRejects(submits, broker_ok)
        THEN [asset |-> a, ret |-> "False", broker |-> broker]
        ELSE IF ~Has(a.slippage)
        THEN \* asset['slippage'] += ... raises KeyError after the ledger update
             [asset |-> a1, ret |-> "raise", broker |-> broker]
        ELSE [asset |-> [a1 EXCEPT !.slippage = Some(RAdd(Val(@), slip)),
                                   !.leg_db = IF DOMAIN db2 = {} THEN None ELSE Some(db2)],
              ret |-> "True", broker |-> broker]

\* A spread order that places its long leg only.
PlaceSpreadOrderLongOnly(a, enabled, quantity, buy_df, sell_df, broker_ok, t) ==
    PlaceSingleOrder(a, enabled, quantity, buy_df, broker_ok, t)

\* _place_spread_order: the long leg is updated first, then the short leg;
\* the directions and the closing profits are computed from the table read
\* before either update.
PlaceSpreadOrder(a, enabled, quantity, buy_df, sell_df, broker_ok, t) ==
    LET leg_df == LegDataframe(a)
        long_symbol == buy_df.symbol
        short_symbol == sell_df.symbol
        long_premium == buy_df.ask
        other_long_premium == buy_df.bid
        short_premium == sell_df.bid
        other_short_premium == sell_df.ask
        open_or_close_long ==
            IF long_symbol \notin DOMAIN leg_df \/ leg_df[long_symbol].quantity > 0
            THEN "BUY_TO_OPEN" ELSE "BUY_TO_CLOSE"
        open_or_close_short ==
            IF short_symbol \notin DOMAIN leg_df \/ leg_df[short_symbol].quantity < 0
            THEN "SELL_TO_OPEN" ELSE "SELL_TO_CLOSE"
        submits == enabled /\ short_premium >= MIN_SELL_PREMIUM
        broker == IF submits
                  THEN << [symbol |-> long_symbol, direction |-> open_or_close_long,
                           quantity |-> quantity, ok |-> broker_ok,
                           short_symbol |-> short_symbol,
                           short_direction |-> open_or_close_short] >>
                  ELSE << >>
        db0 == IF Has(a.leg_db) THEN Val(a.leg_db) ELSE EmptyDb
        profit0 == IF Has(a.profit) THEN Val(a.profit) ELSE R(0)
        \* Update long leg.
        db1 == IF long_symbol \in DOMAIN db0 THEN db0 ELSE InitLeg(db0, buy_df, t)
        long_profit ==
            IF open_or_close_long = "BUY_TO_CLOSE"
            THEN ClosingProfit(leg_df[long_symbol],
                               Min(quantity, Abs(leg_df[long_symbol].quantity)),
                               1, long_premium)
            ELSE R(0)
        db2 == UpdateLeg(db1, long_symbol, quantity, long_premium, long_profit)
        \* Update short leg.
        db3 == IF short_symbol \in DOMAIN db2 THEN db2 ELSE InitLeg(db2, sell_df, t)
        short_profit ==
            IF open_or_close_short = "SELL_TO_CLOSE"
            THEN ClosingProfit(leg_df[short_symbol],
                               Min(quantity, leg_df[short_symbol].quantity),
                               -1, short_premium)
            ELSE R(0)
        db4 == UpdateLeg(db3, short_symbol, -quantity, short_premium, short_profit)
        spread_profit == RAdd(long_profit, short_profit)
        a1 == [a EXCEPT !.leg_db = Some(db4),
                        !.profit = Some(RAdd(profit0, spread_profit))]
        slip == RMul(RAdd(RMul(RAdd(Rat(Abs(long_premium * (1 + NONIDEAL_ADJUSTMENT_FRACTION)
                                            - other_long_premium), 2),
                                    Rat(Abs(short_premium * (1 + NONIDEAL_ADJUSTMENT_FRACTION)
                                            - other_short_premium), 2)),
                               R(UNITS_PER_CONTRACT)),
                          R(2 * COMMISSION_PER_CONTRACT)),
                     R(quantity))
    IN  IF BrokerRejects(submits, broker_ok)
        THEN [asset |-> a, ret |-> "False", broker |-> broker]
        ELSE IF ~Has(a.slippage)
        THEN \* asset['slippage'] += ... raises KeyError after the ledger update
             [asset |-> a1, ret |-> "raise", broker |-> broker]
        ELSE [asset |-> [a1 EXCEPT !.slippage = Some(RAdd(Val(@), slip)),
                                   !.leg_db = IF DOMAIN db4 = {} THEN None ELSE Some(db4)],
              ret |-> "True", broker |-> broker]

(***************************************************************************)
(* Risk/margin calculator (ratio2.py).                                     *)
(***************************************************************************)
RECURSIVE SumOver(_, _)
\* Sum of term[s] over the symbols s of S.
SumOver(term, S) ==
    IF S = {} THEN 0
    ELSE LET s == CHOOSE x \in S : TRUE
         IN  term[s] + SumOver(term, S \ {s})

RECURSIVE RSumCost(_, _)
\* leg_df['cost'].sum()
RSumCost(df, S) ==
    IF S = {} THEN R(0)
    ELSE LET s == CHOOSE x \in S : TRUE
         IN  RAdd(df[s].cost, RSumCost(df, S \ {s}))

RECURSIVE SortByStrike(_, _, _)
\* sort_values(by=['strike'], ascending=...): the symbols of S as a sequence.
SortByStrike(df, S, ascending) ==
    IF S = {} THEN << >>
    ELSE LET m == CHOOSE x \in S : \A y \in S :
                     IF ascending THEN df[x].strike <= df[y].strike
                                  ELSE df[x].strike >= df[y].strike
         IN  <<m>> \o SortByStrike(df, S \ {m}, ascending)

Shorts(df) == {s \in DOMAIN df : df[s].quantity < 0}

Longs(df) == {s \in DOMAIN df : df[s].quantity > 0}

\* df['quantity'].sum()
QuantitySum(df) == SumOver([s \in DOMAIN df |-> df[s].quantity], DOMAIN df)

\* call_df['strike'].max(); NaN on an empty call side, where it is not used.
MaxCallStrike(call_df) ==
    IF DOMAIN call_df = {} THEN 0
    ELSE LET m == CHOOSE x \in DOMAIN call_df :
                     \A y \in DOMAIN call_df : call_df[x].strike >= call_df[y].strike
         IN  call_df[m].strike

\* Strike distance of a leg: the strike for a put, the distance to the
\* highest call strike for a call.
Distance(leg, max_call_strike) ==
    IF leg.contract_type = "PUT" THEN leg.strike ELSE max_call_strike - leg.strike

RECURSIVE NetLongs(_, _, _, _, _, _)
\* The netting loop: long legs, in the given order, reduce the liability
\* while short quantity is left, long legs are left and the liability is
\* not negative.
NetLongs(df, long_seq, idx, i, liability, max_call_strike) ==
    IF i > 0 /\ idx <= Len(long_seq) /\ liability >= 0
    THEN LET leg == df[long_seq[idx]]
             q == Min(i, leg.quantity)
         IN  NetLongs(df, long_seq, idx + 1, i - q,
                      liability - q * Distance(leg, max_call_strike)
                                    * leg.shares_per_contract,
                      max_call_strike)
    ELSE liability

\* Liability of one side: short liability netted against the long legs.
SideLiability(df, ascending, max_call_strike) ==
    LET short_liability ==
            SumOver([s \in DOMAIN df |->
                        Distance(df[s], max_call_strike)
                        * df[s].shares_per_contract * Abs(df[s].quantity)],
                    Shorts(df))
        short_quantity ==
            SumOver([s \in DOMAIN df |-> Abs(df[s].quantity)], Shorts(df))
        long_seq == SortByStrike(df, Longs(df), ascending)
    IN  NetLongs(df, long_seq, 1, short_quantity, short_liability, max_call_strike)

\* UndefinedRisk taking one net short call as covered.
UndefinedRiskBelowOne(leg_df) == QuantitySum(CallDf(leg_df)) < -1

\* At least one uncovered short call exists.
UndefinedRisk(leg_df) == QuantitySum(CallDf(leg_df)) < 0

\* MarginTerm without the floor of 0.
MarginTermNoFloor(leg_df) ==
    LET call_df == CallDf(leg_df)
        put_df == PutDf(leg_df)
        max_call_strike == MaxCallStrike(call_df)
    IN  Max(SideLiability(call_df, TRUE, max_call_strike),
            SideLiability(put_df, FALSE, max_call_strike))

\* The margin term of _total_cost: the larger of the two side liabilities,
\* at least 0.
MarginTerm(leg_df) ==
    LET call_df == CallDf(leg_df)
        put_df == PutDf(leg_df)
        max_call_strike == MaxCallStrike(call_df)
        put_liability == SideLiability(put_df, FALSE, max_call_strike)
        call_liability == SideLiability(call_df, TRUE, max_call_strike)
    IN  Max(0, Max(call_liability, put_liability))

\* TotalCostValue taking every ledger for the empty one.
TotalCostValueOfNone(leg_df) == [inf |-> FALSE, v |-> R(0)]

\* The value _total_cost returns for a ledger: infinity when the call side
\* is net short, otherwise the sum of leg costs plus the margin term.
TotalCostValue(leg_df) ==
    IF UndefinedRisk(leg_df)
    THEN [inf |-> TRUE, v |-> R(0)]
    ELSE [inf |-> FALSE,
          v |-> RAdd(RSumCost(leg_df, DOMAIN leg_df), R(MarginTerm(leg_df)))]

\* _total_cost: also gives profit and slippage their default 0.0.
TotalCost(a) ==
    LET a1 == [a EXCEPT !.profit = IF Has(@) THEN @ ELSE Some(R(0)),
                        !.slippage = IF Has(@) THEN @ ELSE Some(R(0))]
    IN  [asset |-> a1, value |-> TotalCostValue(LegDataframe(a))]

(***************************************************************************)
(* Budget resolver (autoassets/__init__.py).                               *)
(***************************************************************************)
\* Budget taking every scalar amount as a long budget.
BudgetLongOnly(b) == [unit |-> "DOLLAR", amount |-> <<0, b>>]

\* budget, for a scalar amount (cents): a positive amount is a long-only
\* budget, a negative amount a short-only budget.
Budget(b) ==
    IF b > 0 THEN [unit |-> "DOLLAR", amount |-> <<0, b>>]
    ELSE IF b < 0 THEN [unit |-> "DOLLAR", amount |-> <<b, 0>>]
    ELSE [unit |-> "DOLLAR", amount |-> <<0, 0>>]

\* BudgetList taking a list of two equal amounts as a range.
BudgetListEqualSides(l) ==
    IF Len(l) # 2
    THEN None
    ELSE LET budget_short == Min(l[1], l[2])
             budget_long == Max(l[1], l[2])
         IN  IF budget_short > 0 \/ budget_long < 0 \/ budget_short > budget_long
             THEN None
             ELSE Some([unit |-> "DOLLAR", amount |-> <<budget_short, budget_long>>])

\* budget, for a list of amounts (a bidirectional asset): the smaller of two
\* amounts is the short side, the larger the long side; None is returned for
\* a list of another length or an illegal range.
BudgetList(l) ==
    IF Len(l) # 2
    THEN None
    ELSE LET budget_short == Min(l[1], l[2])
             budget_long == Max(l[1], l[2])
         IN  IF budget_short > 0 \/ budget_long < 0 \/ budget_short >= budget_long
             THEN None
             ELSE Some([unit |-> "DOLLAR", amount |-> <<budget_short, budget_long>>])

\* BudgetUnit(value): the member of the enumeration that has the value, None
\* when no member has it (ValueError).
BudgetUnit(value) ==
    IF value = "dollar" THEN Some("DOLLAR")
    ELSE IF value = "share" THEN Some("SHARE")
    ELSE None

\* The budget entry of an asset as the configuration gives it: present or
\* not, wrapped in a dict or not, with the unit of the dict if it has one,
\* and an amount that is a list or a scalar (held as a list of one).
BudgetEntry(present, wrapped, unit, is_list, amount) ==
    [present |-> present, wrapped |-> wrapped, unit |-> unit, is_list |-> is_list,
     amount |-> amount]

\* The entry of a bare scalar amount.
Scalar(b) == BudgetEntry(TRUE, FALSE, None, FALSE, <<b>>)

\* budget: ret is "ok" with the resolved budget in specs, "None", or "raise"
\* for a unit that is not of the enumeration.
AssetBudget(entry) ==
    IF ~entry.present
    THEN [ret |-> "None", specs |-> None]
    ELSE IF entry.wrapped /\ ~Has(entry.unit)
    THEN [ret |-> "None", specs |-> None]
    ELSE IF entry.wrapped /\ ~Has(BudgetUnit(Val(entry.unit)))
    THEN [ret |-> "raise", specs |-> None]
    ELSE The({ IF ~Has(r)
               THEN [ret |-> "None", specs |-> None]
               ELSE [ret |-> "ok",
                     specs |-> Some([Val(r) EXCEPT !.unit =
                                        IF entry.wrapped
                                        THEN Val(BudgetUnit(Val(entry.unit)))
                                        ELSE "DOLLAR"])] :
               r \in { IF entry.is_list THEN BudgetList(entry.amount)
                       ELSE Some(Budget(entry.amount[1])) } })

(***************************************************************************)
(* Ratio spread positioning (ratio2.py).                                   *)
(***************************************************************************)
\* Configuration of the positioning: contracts per trade and the premium
\* targeted per day to expiration (cents).
Positioning == [denomination |-> 1, target_premium_per_day |-> 30]

\* availability.  ret is "ok" with the availability in specs, "None", or
\* "raise": int() of an infinite float raises OverflowError, and the vacancy
\* division raises ZeroDivisionError for a zero budget when the cost is a
\* Python float, which it is when the ledger table is empty or the cost is
\* infinite (with legs the cost is a numpy float and the quotient is nan or
\* infinite, reported here as no vacancy).  b is the result of budget for
\* the asset; subscripting the None of a failed budget raises TypeError.
Availability(a, b) ==
    LET budget_specs == Val(b)
        budget_short == budget_specs.amount[1]
        budget_long == budget_specs.amount[2]
        tc == TotalCost(a)
        cost == tc.value
        denomination == Positioning.denomination
        \* budget and cost are dollar amounts in the source, cents here
        available_trades_float == RDiv(RDiv(RSub(R(budget_long), cost.v), R(100)),
                                       R(denomination))
        vacancy == IF budget_long = 0 THEN None
                   ELSE Some(RDiv(RSub(R(budget_long), cost.v), R(budget_long)))
    IN  IF ~Has(b)
        THEN [asset |-> a, ret |-> "raise"]
        ELSE IF budget_short # 0 \/ budget_specs.unit = "SHARE"
        THEN [asset |-> a, ret |-> "None"]
        ELSE IF cost.inf
        THEN [asset |-> tc.asset, ret |-> "raise"]
        ELSE IF budget_long = 0 /\ DOMAIN LegDataframe(a) = {}
        THEN [asset |-> tc.asset, ret |-> "raise"]
        ELSE [asset |-> tc.asset, ret |-> "ok",
              specs |-> [bullish_trades |-> RInt(available_trades_float),
                         bearish_trades |-> RInt(available_trades_float),
                         bullish_vacancy |-> vacancy,
                         bearish_vacancy |-> vacancy,
                         denomination_long |-> denomination,
                         denomination_short |-> 0]]

\* cost_with_margin: 0.0 for an asset without ledger, else _total_cost.
RatioCostWithMargin(a) ==
    IF ~Has(a.leg_db)
    THEN [asset |-> a, value |-> [inf |-> FALSE, v |-> R(0)]]
    ELSE TotalCost(a)

\* delta: the deltas of the chain (hundredths) weighted by the shares of
\* the legs, each term truncated to an integer; 0 without chain or ledger.
Delta(a, has_chain, chain) ==
    IF ~has_chain \/ ~Has(a.leg_db)
    THEN 0
    ELSE SumOver([s \in DOMAIN Val(a.leg_db) |->
                     RInt(Rat(chain[s].delta * Val(a.leg_db)[s].quantity
                                * Val(a.leg_db)[s].shares_per_contract, 100))],
                 DOMAIN Val(a.leg_db))

\* cost_per_unit: 0.0 without ledger or for a net delta of 0, else the
\* total cost over the net delta.
CostPerUnit(a, has_chain, chain) ==
    IF ~Has(a.leg_db) \/ Delta(a, has_chain, chain) = 0
    THEN [asset |-> a, value |-> [inf |-> FALSE, v |-> R(0)]]
    ELSE The({ [asset |-> tc.asset,
                value |-> [inf |-> tc.value.inf,
                           v |-> RDiv(tc.value.v, R(Delta(a, has_chain, chain)))]] :
               tc \in { TotalCost(a) } })

\* The premium per share at which a leg is closed: a short leg at the ask
\* plus the commission per share, a long leg at the bid less it.
ClosingPremium(position_df, contract) ==
    IF position_df.quantity < 0
    THEN RAdd(R(contract.ask),
              Rat(COMMISSION_PER_CONTRACT, position_df.shares_per_contract))
    ELSE RSub(R(contract.bid),
              Rat(COMMISSION_PER_CONTRACT, position_df.shares_per_contract))

RECURSIVE SumMarketValue(_, _, _)
\* The loop of _total_profit over the legs S of the ledger table.
SumMarketValue(leg_df, chain, S) ==
    IF S = {} THEN R(0)
    ELSE LET s == CHOOSE x \in S : TRUE
         IN  RAdd(RMul(ClosingPremium(leg_df[s], chain[s]),
                       R(leg_df[s].quantity * leg_df[s].shares_per_contract)),
                  SumMarketValue(leg_df, chain, S \ {s}))

\* _total_profit: the market value of the legs, and that value less the
\* cost of the legs plus the realized profit; profit and slippage are given
\* their default 0.0.
TotalProfit(a, chain) ==
    LET a1 == [a EXCEPT !.profit = IF Has(@) THEN @ ELSE Some(R(0)),
                        !.slippage = IF Has(@) THEN @ ELSE Some(R(0))]
        leg_df == LegDataframe(a)
    IN  The({ [asset |-> a1,
               value |-> <<market_value,
                           RAdd(RSub(market_value, RSumCost(leg_df, DOMAIN leg_df)),
                                Val(a1.profit))>>] :
              market_value \in { SumMarketValue(leg_df, chain, DOMAIN leg_df) } })

\* market_value
MarketValue(a, chain) == TotalProfit(a, chain)

\* The contract of largest (smallest) strike among the symbols S of a chain.
IdxMaxStrike(chain, S) == CHOOSE x \in S : \A y \in S : chain[x].strike >= chain[y].strike

IdxMinStrike(chain, S) == CHOOSE x \in S : \A y \in S : chain[x].strike <= chain[y].strike

\* A ledger in which no put leg counts as a duration position.
DurationPutDfOfNone(put_df, tomorrow) == {}

\* put_df[put_df['opex'] >= tomorrow]: the put legs beyond DTE0.
DurationPutDf(put_df, tomorrow) ==
    {s \in DOMAIN put_df : put_df[s].opex >= tomorrow}

\* The body of place_bullish_trade after its call of availability, whose
\* result is av.
BullishTrade(av, enabled, chain, mark, ok1, ok2, t) ==
    LET a0 == av.asset
        put_df == PutDf(LegDataframe(a0))
        tomorrow == t + 1
        duration_put == DurationPutDf(put_df, tomorrow)
        duration_chain == {s \in DOMAIN chain : chain[s].opex >= tomorrow}
        nearest == CHOOSE x \in duration_chain :
                       \A y \in duration_chain : chain[x].opex <= chain[y].opex
        opex == chain[nearest].opex
        dte == opex - t
        puts_at_opex == {s \in DOMAIN chain :
                            chain[s].opex = opex /\ chain[s].contract_type = "PUT"}
        long_put_query == {s \in puts_at_opex : chain[s].delta >= -16}
        long_put_symbol == IdxMaxStrike(chain, long_put_query)
        long_put_premium == chain[long_put_symbol].ask
        target_premium ==
            RAdd(Rat(long_put_premium + dte * Positioning.target_premium_per_day, 2),
                 R(2 * MAX_BUY_MARGIN_PREMIUM))
        short_put_query == {s \in puts_at_opex : RLe(target_premium, R(chain[s].bid))}
        short_put_symbol == IdxMinStrike(chain, short_put_query)
        margin_put_query == {s \in puts_at_opex : chain[s].ask <= MAX_BUY_MARGIN_PREMIUM}
        margin_put_symbol == IdxMaxStrike(chain, margin_put_query)
        denomination == av.specs.denomination_long
    IN  IF av.ret # "ok"
        THEN \* a raise of availability propagates; None is subscripted (TypeError)
             [asset |-> a0, ret |-> "raise", broker |-> << >>]
        ELSE IF av.specs.bullish_trades = 0
        THEN [asset |-> a0, ret |-> "False", broker |-> << >>]
        ELSE IF duration_put # {}
        THEN [asset |-> a0, ret |-> "False", broker |-> << >>]
        ELSE IF duration_chain = {}
        THEN \* .iloc[0] of an empty table raises IndexError
             [asset |-> a0, ret |-> "raise", broker |-> << >>]
        ELSE IF long_put_query = {}
        THEN [asset |-> a0, ret |-> "False", broker |-> << >>]
        ELSE IF RLt(target_premium, R(MIN_SELL_PREMIUM))
        THEN [asset |-> a0, ret |-> "False", broker |-> << >>]
        ELSE IF short_put_query = {}
        THEN [asset |-> a0, ret |-> "False", broker |-> << >>]
        ELSE IF short_put_symbol = long_put_symbol
        THEN [asset |-> a0, ret |-> "False", broker |-> << >>]
        ELSE IF margin_put_query = {}
        THEN [asset |-> a0, ret |-> "False", broker |-> << >>]
        ELSE The({ IF first.ret # "True"
                   THEN first
                   ELSE The({ IF second.ret # "True"
                              THEN [second EXCEPT !.broker = first.broker \o @]
                              ELSE [asset |-> [second.asset EXCEPT
                                                  !.last_trade_price = Some(mark)],
                                    ret |-> "True",
                                    broker |-> first.broker \o second.broker] :
                              second \in { PlaceSpreadOrder(first.asset, enabled,
                                               denomination, chain[margin_put_symbol],
                                               chain[short_put_symbol], ok2, t) } }) :
                   first \in { PlaceSpreadOrder(a0, enabled, denomination,
                                   chain[long_put_symbol], chain[short_put_symbol],
                                   ok1, t) } })

\* place_bullish_trade: sell a put backratio as two spread orders.
PlaceBullishTrade(a, b, enabled, has_data, chain, mark, ok1, ok2, t) ==
    IF ~has_data
    THEN [asset |-> a, ret |-> "False", broker |-> << >>]
    ELSE The({ BullishTrade(av, enabled, chain, mark, ok1, ok2, t) :
               av \in { Availability(a, b) } })

\* A bearish trade that drops the ledger and reports a trade.
PlaceBearishTradeDropsLedger(a) ==
    [asset |-> [a EXCEPT !.leg_db = None], ret |-> "True", broker |-> << >>]

\* place_bearish_trade: the ratio spread has no bearish trade.
PlaceBearishTrade(a) == [asset |-> a, ret |-> "False", broker |-> << >>]

(***************************************************************************)
(* Scan-and-adjust driver, neutralize and probe (ratio2.py).  During one   *)
(* operation the broker is described by rejects: rejects[s] is the number  *)
(* of orders on contract s that it still rejects before accepting one.     *)
(***************************************************************************)
BrokerOk(rejects, s) == s \notin DOMAIN rejects \/ rejects[s] = 0

\* The broker after the order r on contract s.
Answered(rejects, r, s) ==
    IF r.broker # << >> /\ s \in DOMAIN rejects /\ rejects[s] > 0
    THEN [rejects EXCEPT ![s] = @ - 1]
    ELSE rejects

RECURSIVE SortByQuantity(_, _)
\* sort_values(by='quantity', ascending=True): the symbols of S as a
\* sequence; legs of equal quantity come in a fixed order.
SortByQuantity(df, S) ==
    IF S = {} THEN << >>
    ELSE LET m == CHOOSE x \in S : \A y \in S : df[x].quantity <= df[y].quantity
         IN  <<m>> \o SortByQuantity(df, S \ {m})

\* NeutralizeCb closing a leg whatever its expiration.
NeutralizeCbAnyDay(a, enabled, contract_df, position_df, broker_ok, t) ==
    PlaceSingleOrder(a, enabled, -position_df.quantity, contract_df, broker_ok, t)

\* __closing_cb of neutralize: close the whole leg once its contract has
\* reached its expiration.
NeutralizeCb(a, enabled, contract_df, position_df, broker_ok, t) ==
    IF t >= contract_df.opex
    THEN PlaceSingleOrder(a, enabled, -position_df.quantity, contract_df, broker_ok, t)
    ELSE [asset |-> a, ret |-> "False", broker |-> << >>]

\* ProbeCb not skipping long legs.
ProbeCbLongsToo(a, enabled, contract_df, position_df, broker_ok, t) ==
    IF contract_df.ask <= MAX_BUY_MARGIN_PREMIUM
    THEN PlaceSingleOrder(a, enabled, -position_df.quantity, contract_df, broker_ok, t)
    ELSE [asset |-> a, ret |-> "None", broker |-> << >>]

\* __closing_cb of probe: buy back the whole of a short leg whose ask is at
\* most MAX_BUY_MARGIN_PREMIUM; the callback returns None above it.
ProbeCb(a, enabled, contract_df, position_df, broker_ok, t) ==
    IF position_df.quantity > 0
    THEN [asset |-> a, ret |-> "False", broker |-> << >>]
    ELSE IF contract_df.ask <= MAX_BUY_MARGIN_PREMIUM
    THEN PlaceSingleOrder(a, enabled, -position_df.quantity, contract_df, broker_ok, t)
    ELSE [asset |-> a, ret |-> "None", broker |-> << >>]

\* The put of the strike of a call.
HedgeOf(symbol) ==
    CASE symbol = "C1" -> "P1" [] symbol = "C2" -> "P2" [] symbol = "C3" -> "P3"

\* An adjustment callback of the driver (function(leg_df, side_df,
\* contract_df, position_df) returning whether an adjustment was made) that
\* closes the leg it is handed and, when that is a call, closes with it the
\* put of the same strike that the ledger holds.
HedgedCb(a, enabled, chain, contract_df, position_df, broker_ok, t) ==
    The({ IF r.ret # "True"
             \/ contract_df.contract_type # "CALL"
             \/ HedgeOf(contract_df.symbol) \notin DOMAIN LegDataframe(r.asset)
          THEN r
          ELSE The({ [asset |-> h.asset,
                      ret |-> IF h.ret = "raise" THEN "raise" ELSE "True",
                      broker |-> r.broker \o h.broker] :
                     h \in { PlaceSingleOrder(
                                 r.asset, enabled,
                                 -LegDataframe(r.asset)[HedgeOf(contract_df.symbol)].quantity,
                                 chain[HedgeOf(contract_df.symbol)], broker_ok, t) } }) :
          r \in { PlaceSingleOrder(a, enabled, -position_df.quantity, contract_df,
                                   broker_ok, t) } })

\* The adjustment callback handed to the driver: that of neutralize, that of
\* probe, or the callback closing a call with its put.
AdjustmentCb(cb, a, enabled, chain, contract_df, position_df, broker_ok, t) ==
    CASE cb = "neutralize" ->
            NeutralizeCb(a, enabled, contract_df, position_df, broker_ok, t)
      [] cb = "probe" ->
            ProbeCb(a, enabled, contract_df, position_df, broker_ok, t)
      [] cb = "hedged" ->
            HedgedCb(a, enabled, chain, contract_df, position_df, broker_ok, t)

\* RefreshedSide finding no leg left on the side.
RefreshedSideEmpty(a, type, side_df) == EmptyDb

\* The side table read again from the ledger after an adjustment.
RefreshedSide(a, type, side_df) == SideDf(LegDataframe(a), type)

\* What the callback is handed for the leg `symbol`: the row position_df of
\* the side table, next to the entry of the ledger at that moment.
Handed(a, side_df, symbol) ==
    [symbol |-> symbol, position_df |-> side_df[symbol],
     ledger |-> IF symbol \in DOMAIN LegDataframe(a)
                THEN Some(LegDataframe(a)[symbol]) ELSE None]

RECURSIVE ScanLegs(_, _, _, _, _, _, _, _)
\* One pass over the legs of a side, in the order seq, from index i: the
\* callback is applied to each leg until it reports an adjustment.  hit tells
\* whether a leg was adjusted.  Looking up a contract that the option chain
\* does not quote raises KeyError.
ScanLegs(st, cb, enabled, chain, side_df, seq, i, t) ==
    IF i > Len(seq)
    THEN [st EXCEPT !.hit = FALSE]
    ELSE IF seq[i] \notin DOMAIN chain
    THEN [st EXCEPT !.ret = "raise", !.hit = FALSE]
    ELSE The({ The({ IF r.ret = "raise"
                     THEN [st1 EXCEPT !.ret = "raise", !.hit = FALSE]
                     ELSE IF r.ret = "True"
                     THEN [st1 EXCEPT !.hit = TRUE, !.adjusted = @ \cup {seq[i]}]
                     ELSE ScanLegs(st1, cb, enabled, chain, side_df, seq, i + 1, t) :
                     st1 \in { [st EXCEPT !.asset = r.asset,
                                          !.broker = @ \o r.broker,
                                          !.rejects = Answered(@, r, seq[i]),
                                          !.visited = Append(@, seq[i]),
                                          !.handed = Append(@, Handed(st.asset, side_df,
                                                                      seq[i]))] } }) :
               r \in { AdjustmentCb(cb, st.asset, enabled, chain, chain[seq[i]],
                                    side_df[seq[i]], BrokerOk(st.rejects, seq[i]), t) } })

RECURSIVE ScanSide(_, _, _, _, _, _, _, _)
\* The passes over one side: a pass that adjusts a leg is followed by a pass
\* over the side read again; the side is left when it has no leg or a pass
\* adjusts nothing.  ret is "diverged" when passes are still due after
\* `passes` of them.
ScanSide(st, cb, enabled, chain, side_df, type, passes, t) ==
    IF DOMAIN side_df = {}
    THEN st
    ELSE IF passes = 0
    THEN [st EXCEPT !.ret = "diverged"]
    ELSE The({ IF p.ret = "raise" \/ ~p.hit
               THEN p
               ELSE ScanSide(p, cb, enabled, chain,
                             RefreshedSide(p.asset, type, side_df), type,
                             passes - 1, t) :
               p \in { ScanLegs(st, cb, enabled, chain, side_df,
                                SortByQuantity(side_df, DOMAIN side_df), 1, t) } })

\* _scan_and_adjust: the call side, then the put side as it was read before
\* the scan.  The result holds the asset after the scan, the broker calls,
\* the symbols the callback was applied to, in order, with the rows it was
\* handed, and the symbols it adjusted.  Every leg of the ledger is a call or a put, so the return on an
\* unsupported contract type is never taken.
ScanAndAdjust(a, cb, enabled, chain, rejects, t) ==
    The({ IF calls.ret \in {"raise", "diverged"}
          THEN calls
          ELSE ScanSide(calls, cb, enabled, chain, PutDf(LegDataframe(a)), "PUT",
                        MaxPasses, t) :
          calls \in { ScanSide([asset |-> a, ret |-> "None", broker |-> << >>,
                                rejects |-> rejects, visited |-> << >>,
                                handed |-> << >>, adjusted |-> {}, hit |-> FALSE],
                               cb, enabled, chain, CallDf(LegDataframe(a)), "CALL",
                               MaxPasses, t) } })

\* NeutralizeReturn reporting success whatever is left.
NeutralizeReturnTrue(a) == "True"

\* The value neutralize returns after its scan.
NeutralizeReturn(a) == IF ~Has(a.leg_db) THEN "True" ELSE "False"

\* neutralize
Neutralize(a, enabled, chain, rejects, t) ==
    IF ~Has(a.leg_db)
    THEN [asset |-> a, ret |-> "True", broker |-> << >>, visited |-> << >>,
          adjusted |-> {}]
    ELSE The({ [asset |-> s.asset,
                ret |-> IF s.ret \in {"raise", "diverged"} THEN s.ret
                        ELSE NeutralizeReturn(s.asset),
                broker |-> s.broker, visited |-> s.visited, adjusted |-> s.adjusted] :
               s \in { ScanAndAdjust(a, "neutralize", enabled, chain, rejects, t) } })

\* probe
Probe(a, enabled, chain, rejects, t) ==
    IF ~Has(a.leg_db)
    THEN [asset |-> a, ret |-> "None", broker |-> << >>, visited |-> << >>,
          adjusted |-> {}]
    ELSE The({ [asset |-> s.asset, ret |-> s.ret, broker |-> s.broker,
                visited |-> s.visited, adjusted |-> s.adjusted] :
               s \in { ScanAndAdjust(a, "probe", enabled, chain, rejects, t) } })

(***************************************************************************)
(* Accumulative equity positioning (accumulative.py).  Prices of the stock *)
(* are in cents per share.                                                 *)
(***************************************************************************)
\* Values of math.pow(1 + expected_rate, years held) for a position held
\* for some time; the power is 1 when no time has passed.
Growths == { R(1), Rat(11, 10) }

\* Cdca taking the position as held at no cost.
CdcaOfNone(a, t, growth) == R(0)

\* Position taking the asset as holding nothing.
PositionOfNone(a) == 0

\* asset['position'], 0 when absent.
Position(a) == IF Has(a.position) THEN Val(a.position) ELSE 0

\* cost_per_unit
AccCostPerUnit(a) ==
    IF Has(a.position) /\ Val(a.position) # 0
    THEN RDiv(Val(a.cost), R(Val(a.position)))
    ELSE R(0)

\* cost_with_margin
AccCostWithMargin(a) == IF Has(a.cost) THEN Val(a.cost) ELSE R(0)

\* delta
AccDelta(a) == IF Has(a.position) THEN Val(a.position) ELSE 0

\* market_value: the position at the mark price, and that value less the
\* cost.
AccMarketValue(a, quote) ==
    The({ <<mv, RSub(mv, AccCostWithMargin(a))>> :
          mv \in { R(AccDelta(a) * quote.mark) } })

\* _cdca: the cost per unit compounded over the time held.
Cdca(a, t, growth) ==
    LET acquired_at == IF Has(a.acquired_at) THEN Val(a.acquired_at) ELSE R(t)
    IN  IF acquired_at = R(t) THEN AccCostPerUnit(a)
        ELSE RMul(AccCostPerUnit(a), growth)

\* availability.  The all-time high is recorded before the vacancy division,
\* which raises ZeroDivisionError when budget plus profit is zero.  b is the
\* result of budget for the asset; subscripting the None of a failed budget
\* raises TypeError.
AccAvailability(a, b, quote) ==
    LET budget_specs == Val(b)
        budget_short == budget_specs.amount[1]
        ask_price == quote.ask
        position == Position(a)
        a1 == [a EXCEPT !.ath = IF ~Has(@) \/ ask_price > Val(@)
                                THEN Some(ask_price) ELSE @]
        budget_long == IF Has(a.profit)
                       THEN RAdd(R(budget_specs.amount[2]), Val(a.profit))
                       ELSE R(budget_specs.amount[2])
        budget_long_shares == RDiv(budget_long, R(ask_price))
        denomination_long == 1
        bullish_trades_float == RDiv(RSub(budget_long_shares, R(position)),
                                     R(denomination_long))
        bearish_trades_float == Rat(position, denomination_long)
        total_trades_float == RAdd(bullish_trades_float, bearish_trades_float)
    IN  IF ~Has(b)
        THEN [asset |-> a, ret |-> "raise"]
        ELSE IF budget_short # 0 \/ budget_specs.unit # "DOLLAR"
        THEN [asset |-> a, ret |-> "None"]
        ELSE IF total_trades_float = R(0)
        THEN [asset |-> a1, ret |-> "raise"]
        ELSE [asset |-> a1, ret |-> "ok",
              specs |-> [budget_long |-> budget_long,
                         budget_short |-> R(0),
                         bullish_trades |-> RInt(bullish_trades_float),
                         bearish_trades |-> RInt(bearish_trades_float),
                         bullish_vacancy |-> RDiv(bullish_trades_float, total_trades_float),
                         bearish_vacancy |-> RDiv(bearish_trades_float, total_trades_float),
                         denomination_long |-> 1,
                         denomination_short |-> 0]]

\* positioning['follow_last_trade_alpha'], default 0.001
FollowLastTradeAlpha == Rat(1, 1000)

\* The body of _maybe_place_stock_order after its call of availability,
\* whose result is av.
StockOrder(av, enabled, quote, quantity, follow_last_trade, broker_ok, t, growth) ==
    LET a0 == av.asset
        price == IF quantity < 0 THEN quote.bid ELSE quote.ask
        vacancy == IF quantity < 0 THEN av.specs.bearish_vacancy
                   ELSE av.specs.bullish_vacancy
        position == Position(a0)
        unit_cost == AccCostPerUnit(a0)
        compounded_unit_cost == Cdca(a0, t, growth)
        min_price_offset == RMul(RMul(FollowLastTradeAlpha, R(price)), vacancy)
        sign_quantity == Sign(quantity)
        target_price == RSub(R(Val(a0.last_trade_price)),
                             RMul(R(sign_quantity), min_price_offset))
        worse_than_last ==
            /\ follow_last_trade /\ position # 0 /\ Has(a0.last_trade_price)
            /\ RLt(RMul(R(sign_quantity), target_price), R(sign_quantity * price))
        min_sell_price == RAdd(RMul(R(Val(a0.ath)), vacancy), min_price_offset)
        worse_than_cost ==
            /\ quantity < 0
            /\ (RLt(R(price), compounded_unit_cost) \/ RLt(R(price), min_sell_price))
        broker == IF enabled
                  THEN << [symbol |-> "stock",
                           direction |-> IF quantity < 0 THEN "SELL" ELSE "BUY",
                           quantity |-> Abs(quantity), ok |-> broker_ok] >>
                  ELSE << >>
        acquired_at == IF Has(a0.acquired_at) THEN Val(a0.acquired_at) ELSE R(t)
        cost == IF Has(a0.cost) THEN Val(a0.cost) ELSE R(0)
        cost_prime == RAdd(cost, R(price * quantity))
        sold_cost == RAdd(cost, RMul(unit_cost, R(quantity)))
        profit0 == IF Has(a0.profit) THEN Val(a0.profit) ELSE R(0)
        a1 == IF quantity < 0
              THEN [a0 EXCEPT !.cost = Some(sold_cost),
                              !.profit = Some(RAdd(profit0, RSub(sold_cost, cost_prime)))]
              ELSE [a0 EXCEPT !.cost = Some(cost_prime),
                              !.acquired_at =
                                  Some(RAdd(RMul(RSub(R(t), acquired_at),
                                                 Rat(quantity, quantity + position)),
                                            acquired_at))]
        a2 == IF position + quantity = 0
              THEN [a1 EXCEPT !.position = None, !.cost = None, !.acquired_at = None]
              ELSE [a1 EXCEPT !.position = Some(position + quantity)]
    IN  IF av.ret # "ok"
        THEN \* a raise of availability propagates; None is subscripted (TypeError)
             [asset |-> a0, ret |-> "raise", broker |-> << >>]
        ELSE IF quantity = 0
        THEN [asset |-> a0, ret |-> "False", broker |-> << >>]
        ELSE IF worse_than_last \/ worse_than_cost
        THEN [asset |-> a0, ret |-> "False", broker |-> << >>]
        ELSE IF enabled /\ ~broker_ok
        THEN [asset |-> a0, ret |-> "False", broker |-> broker]
        ELSE [asset |-> [a2 EXCEPT !.last_trade_price = Some(price)],
              ret |-> "True", broker |-> broker]

\* _maybe_place_stock_order
MaybePlaceStockOrder(a, b, enabled, quote, quantity, follow_last_trade, broker_ok, t, growth) ==
    The({ StockOrder(av, enabled, quote, quantity, follow_last_trade, broker_ok, t,
                     growth) :
          av \in { AccAvailability(a, b, quote) } })

\* place_bullish_trade
AccPlaceBullishTrade(a, b, enabled, quote, broker_ok, t, growth) ==
    The({ IF av.ret # "ok"
          THEN [asset |-> av.asset, ret |-> "raise", broker |-> << >>]
          ELSE IF av.specs.bullish_trades = 0
          THEN [asset |-> av.asset, ret |-> "False", broker |-> << >>]
          ELSE MaybePlaceStockOrder(av.asset, b, enabled, quote,
                                    av.specs.denomination_long, TRUE, broker_ok, t,
                                    growth) :
          av \in { AccAvailability(a, b, quote) } })

\* place_bearish_trade
AccPlaceBearishTrade(a, b, enabled, quote, broker_ok, t, growth) ==
    The({ IF av.ret # "ok"
          THEN [asset |-> av.asset, ret |-> "raise", broker |-> << >>]
          ELSE IF av.specs.bearish_trades = 0
          THEN [asset |-> av.asset, ret |-> "False", broker |-> << >>]
          ELSE MaybePlaceStockOrder(av.asset, b, enabled, quote,
                                    -Min(Position(av.asset), av.specs.denomination_long),
                                    TRUE, broker_ok, t, growth) :
          av \in { AccAvailability(a, b, quote) } })

\* A neutralize that sells one share more than the position holds.
AccNeutralizeOneMore(a, b, enabled, quote, broker_ok, t, growth) ==
    MaybePlaceStockOrder(a, b, enabled, quote, -(Position(a) + 1), FALSE, broker_ok, t,
                         growth)

\* neutralize: sell the whole position, not following the last trade.
AccNeutralize(a, b, enabled, quote, broker_ok, t, growth) ==
    MaybePlaceStockOrder(a, b, enabled, quote, -Position(a), FALSE, broker_ok, t,
                         growth)

\* ProbeQuantity taking the budget as not occupied at all.
ProbeQuantityUnoccupied(drawdown, occupance, budget_long, ask_price) ==
    IF RLt(R(0), drawdown)
    THEN RInt(RDiv(RMul(drawdown, budget_long), R(ask_price)))
    ELSE 0

\* The shares probe buys: the occupance of the budget is raised to the
\* drawdown of the market.
ProbeQuantity(drawdown, occupance, budget_long, ask_price) ==
    IF RLt(occupance, drawdown)
    THEN RInt(RDiv(RMul(RSub(drawdown, occupance), budget_long), R(ask_price)))
    ELSE 0

\* probe: scale into a drawdown from the all-time high.
AccProbe(a, b, enabled, quote, broker_ok, t, growth) ==
    The({ IF av.ret # "ok"
          THEN \* a raise of availability propagates; None is subscripted
               [asset |-> av.asset, ret |-> "raise", broker |-> << >>]
          ELSE The({ IF quantity > 0
                     THEN The({ [asset |-> r.asset,
                                 ret |-> IF r.ret = "raise" THEN "raise" ELSE "None",
                                 broker |-> r.broker] :
                                r \in { MaybePlaceStockOrder(av.asset, b, enabled, quote,
                                            quantity, FALSE, broker_ok, t, growth) } })
                     ELSE [asset |-> av.asset, ret |-> "None", broker |-> << >>] :
                     quantity \in { ProbeQuantity(
                                      RSub(R(1), Rat(quote.ask, Val(av.asset.ath))),
                                      av.specs.bearish_vacancy,
                                      av.specs.budget_long, quote.ask) } }) :
          av \in { AccAvailability(a, b, quote) } })

(***************************************************************************)
(* The state machine: one asset, created from configuration with no        *)
(* runtime field, the market data, and the operations applied to the asset *)
(* one at a time.                                                          *)
(***************************************************************************)
\* The long budgets tried, in cents; 0 is the zero budget.
Budgets == {0, 50000, 100000}

\* An asset as load_assets returns it: with no runtime field when it comes
\* from the configuration alone, or with the profit and slippage that a cost
\* computation of an earlier session stored and no position.
NewAsset ==
    [leg_db |-> None, profit |-> None, slippage |-> None,
     last_trade_price |-> None, position |-> None, cost |-> None,
     ath |-> None, acquired_at |-> None]

StoredAsset == [NewAsset EXCEPT !.profit = Some(R(0)), !.slippage = Some(R(0))]

Init ==
    /\ structure \in {"ratio2", "accumulative"}
    /\ enable_trades \in BOOLEAN
    /\ budget \in Budgets
    /\ market = Market(QuotesHigh)
    /\ asset \in {NewAsset, StoredAsset}
    /\ now = 0
    /\ op = [name |-> "init", ret |-> "None", broker |-> << >>]
    /\ steps = 0
    /\ engine = EngineOff

\* Operations left in the run.
MayStep ==
    steps < (IF structure = "ratio2" THEN MaxSteps ELSE MaxAccSteps)

\* The quantities of the ledger stay within the bound.
WithinBound(a) ==
    /\ \A s \in DOMAIN LegDataframe(a) : Abs(LegDataframe(a)[s].quantity) <= MaxQty
    /\ Abs(Position(a)) <= MaxQty

Finish(r, name, args) ==
    /\ WithinBound(r.asset)
    /\ asset' = r.asset
    /\ op' = [name |-> name, args |-> args, ret |-> r.ret, broker |-> r.broker]
    /\ steps' = steps + 1
    /\ UNCHANGED <<engine, structure, enable_trades, budget, market, now>>

\* The clock advances by a day.
Tick ==
    /\ MayStep
    /\ now < MaxDay
    /\ now' = now + 1
    /\ op' = [name |-> "tick", ret |-> "None", broker |-> << >>]
    /\ steps' = steps + 1
    /\ UNCHANGED <<engine, structure, enable_trades, budget, market, asset>>

\* A market-data event replaces the quotes.
MarketData ==
    /\ MayStep
    /\ \E m \in Markets \ {market} : market' = m
    /\ op' = [name |-> "market_data", ret |-> "None", broker |-> << >>]
    /\ steps' = steps + 1
    /\ UNCHANGED <<engine, structure, enable_trades, budget, asset, now>>

\* A single-leg order on a contract of the chain.
SingleOrder ==
    /\ structure = "ratio2"
    /\ MayStep
    /\ \E s \in Symbols, quantity \in -MaxQty..MaxQty, broker_ok \in BOOLEAN :
          LET contract_df == market.option_chain[s]
              premium == IF quantity > 0 THEN contract_df.ask ELSE contract_df.bid
          IN  /\ broker_ok \/ SingleSubmits(enable_trades, quantity, premium)
              /\ Finish(PlaceSingleOrder(asset, enable_trades, quantity, contract_df,
                                         broker_ok, now),
                        "single",
                        [quantity |-> quantity, symbol |-> s, premium |-> premium,
                         direction |-> SingleDirection(LegDataframe(asset), s, quantity)])

\* A spread order on two contracts of the chain.
SpreadOrder ==
    /\ structure = "ratio2"
    /\ MayStep
    /\ \E buy \in Symbols, sell \in Symbols, quantity \in 1..MaxSpreadQty,
          broker_ok \in BOOLEAN :
          LET buy_df == market.option_chain[buy]
              sell_df == market.option_chain[sell]
          IN  /\ broker_ok \/ (enable_trades /\ sell_df.bid >= MIN_SELL_PREMIUM)
              /\ Finish(PlaceSpreadOrder(asset, enable_trades, quantity, buy_df,
                                         sell_df, broker_ok, now),
                        "spread",
                        [quantity |-> quantity, symbol |-> buy, short_symbol |-> sell,
                         premium |-> buy_df.ask, short_premium |-> sell_df.bid])

\* availability of the ratio spread asset.
RatioAvailability ==
    /\ structure = "ratio2"
    /\ MayStep
    /\ LET r == Availability(asset, Some(Budget(budget)))
       IN  Finish([asset |-> r.asset, ret |-> r.ret, broker |-> << >>],
                  "availability",
                  [specs |-> IF r.ret = "ok" THEN Some(r.specs) ELSE None])

\* place_bullish_trade of the ratio spread asset.
RatioPlaceBullishTrade ==
    /\ structure = "ratio2"
    /\ MayStep
    /\ \E has_data \in BOOLEAN, ok1 \in BOOLEAN, ok2 \in BOOLEAN :
          \E r \in { PlaceBullishTrade(asset, Some(Budget(budget)), enable_trades, has_data,
                                        market.option_chain, market.quote.mark,
                                        ok1, ok2, now) } :
              /\ ok1 \/ Len(r.broker) >= 1
              /\ ok2 \/ Len(r.broker) >= 2
              /\ Finish(r, "place_bullish_trade", [has_data |-> has_data])

\* availability of the accumulative asset.
AccumulativeAvailability ==
    /\ structure = "accumulative"
    /\ MayStep
    /\ LET r == AccAvailability(asset, Some(Budget(budget)), market.quote)
       IN  Finish([asset |-> r.asset, ret |-> r.ret, broker |-> << >>],
                  "availability",
                  [specs |-> IF r.ret = "ok" THEN Some(r.specs) ELSE None])

\* place_bullish_trade of the accumulative asset.
AccumulativePlaceBullishTrade ==
    /\ structure = "accumulative"
    /\ MayStep
    /\ \E growth \in Growths, broker_ok \in BOOLEAN :
          \E r \in { AccPlaceBullishTrade(asset, Some(Budget(budget)), enable_trades,
                                           market.quote, broker_ok, now, growth) } :
              /\ broker_ok \/ Len(r.broker) >= 1
              /\ Finish(r, "place_bullish_trade", [price |-> market.quote.ask])

\* place_bearish_trade of the accumulative asset.
AccumulativePlaceBearishTrade ==
    /\ structure = "accumulative"
    /\ MayStep
    /\ \E growth \in Growths, broker_ok \in BOOLEAN :
          \E r \in { AccPlaceBearishTrade(asset, Some(Budget(budget)), enable_trades,
                                           market.quote, broker_ok, now, growth) } :
              /\ broker_ok \/ Len(r.broker) >= 1
              /\ Finish(r, "place_bearish_trade",
                        [price |-> market.quote.bid, growth |-> growth])

\* What the broker may do during a scan of the ledger; it is not called
\* while trading is disabled.
Rejections ==
    IF enable_trades
    THEN [DOMAIN LegDataframe(asset) -> 0..MaxRejects]
    ELSE { [s \in DOMAIN LegDataframe(asset) |-> 0] }

\* neutralize applied to the asset, the broker rejecting as rejects tells.
NeutralizeCall ==
    \E rejects \in Rejections :
        \E r \in { Neutralize(asset, enable_trades, market.option_chain, rejects,
                              now) } :
            Finish(r, "neutralize",
                   [visited |-> r.visited, adjusted |-> r.adjusted])

\* probe applied to the asset, the broker rejecting as rejects tells.
ProbeCall ==
    \E rejects \in Rejections :
        \E r \in { Probe(asset, enable_trades, market.option_chain, rejects, now) } :
            Finish(r, "probe",
                   [visited |-> r.visited, adjusted |-> r.adjusted])

\* neutralize of the ratio spread asset.
RatioNeutralize ==
    /\ structure = "ratio2"
    /\ MayStep
    /\ NeutralizeCall

\* probe of the ratio spread asset.
RatioProbe ==
    /\ structure = "ratio2"
    /\ MayStep
    /\ ProbeCall

\* neutralize of the accumulative asset.
AccumulativeNeutralize ==
    /\ structure = "accumulative"
    /\ MayStep
    /\ \E growth \in Growths, broker_ok \in BOOLEAN :
          \E r \in { AccNeutralize(asset, Some(Budget(budget)), enable_trades, market.quote,
                                    broker_ok, now, growth) } :
              /\ broker_ok \/ Len(r.broker) >= 1
              /\ Finish(r, "neutralize",
                        [price |-> market.quote.bid, growth |-> growth])

\* probe of the accumulative asset.
AccumulativeProbe ==
    /\ structure = "accumulative"
    /\ MayStep
    /\ \E growth \in Growths, broker_ok \in BOOLEAN :
          \E r \in { AccProbe(asset, Some(Budget(budget)), enable_trades, market.quote,
                               broker_ok, now, growth) } :
              /\ broker_ok \/ Len(r.broker) >= 1
              /\ Finish(r, "probe", [price |-> market.quote.ask])

Next ==
    \/ Tick
    \/ MarketData
    \/ SingleOrder
    \/ SpreadOrder
    \/ RatioAvailability
    \/ RatioPlaceBullishTrade
    \/ AccumulativeAvailability
    \/ AccumulativePlaceBullishTrade
    \/ AccumulativePlaceBearishTrade
    \/ RatioNeutralize
    \/ RatioProbe
    \/ AccumulativeNeutralize
    \/ AccumulativeProbe

Spec == Init /\ [][Next]_vars

(***************************************************************************)
(* The risk calculator as a function of the ledger: the ledger is drawn    *)
(* from the ledgers over the puts and calls with quantities up to MaxQty,  *)
(* and cost_with_margin is applied to it.                                  *)
(***************************************************************************)
\* A ledger entry of `quantity` contracts of s held at `cost`.
Leg(s, quantity, cost) ==
    [opex |-> Opex(s), strike |-> Strike(s), contract_type |-> ContractType(s),
     shares_per_contract |-> UNITS_PER_CONTRACT, cost |-> cost,
     quantity |-> quantity, last_trade_price |-> None]

\* Per-unit premium (cents) at which the legs of a drawn ledger were opened.
OpeningPremium(s) == Strike(s) \div 4

\* The cost of a leg opened in one order at OpeningPremium.
OpeningCost(s, quantity) ==
    R(quantity * (UNITS_PER_CONTRACT * OpeningPremium(s)
                  + Sign(quantity) * COMMISSION_PER_CONTRACT))

Ledgers ==
    UNION { [S -> (-MaxQty..MaxQty) \ {0}] : S \in SUBSET (Puts \cup Calls) }

LedgerDb(quantities) ==
    [s \in DOMAIN quantities |-> Leg(s, quantities[s], OpeningCost(s, quantities[s]))]

InitRisk ==
    /\ structure = "ratio2"
    /\ enable_trades = FALSE
    /\ budget = 0
    /\ market = Market(QuotesHigh)
    /\ \E quantities \in Ledgers :
          asset = [NewAsset EXCEPT
                      !.leg_db = IF DOMAIN quantities = {} THEN None
                                 ELSE Some(LedgerDb(quantities))]
    /\ now = 0
    /\ op = [name |-> "init", ret |-> "None", broker |-> << >>]
    /\ steps = 0
    /\ engine = EngineOff

\* cost_with_margin
CostWithMargin ==
    /\ structure = "ratio2"
    /\ steps = 0
    /\ \E tc \in { RatioCostWithMargin(asset) } :
          Finish([asset |-> tc.asset, ret |-> "ok", broker |-> << >>],
                 "cost_with_margin", [value |-> tc.value])

NextRisk == CostWithMargin

SpecRisk == InitRisk /\ [][NextRisk]_vars

(***************************************************************************)
(* The single-order executor as a function of the leg it closes: the       *)
(* ledger is drawn from the ledgers of one leg, held at a cost per         *)
(* contract of LegCosts, and an order closes part or all of the leg.       *)
(***************************************************************************)
\* Cost per contract (cents) at which the leg of a drawn ledger is held.
LegCosts == {10000, 4321}

InitClose ==
    /\ structure = "ratio2"
    /\ enable_trades \in BOOLEAN
    /\ budget = 0
    /\ market = Market(QuotesHigh)
    /\ \E s \in Symbols, quantity \in (-MaxLegQty..MaxLegQty) \ {0}, c \in LegCosts :
          asset = [StoredAsset EXCEPT
                      !.leg_db = Some([x \in {s} |-> Leg(s, quantity, R(quantity * c))])]
    /\ now = 0
    /\ op = [name |-> "init", ret |-> "None", broker |-> << >>]
    /\ steps = 0
    /\ engine = EngineOff

\* A single-leg order closing contracts of a leg of the ledger.
ClosingOrder ==
    /\ structure = "ratio2"
    /\ steps = 0
    /\ \E s \in DOMAIN LegDataframe(asset), broker_ok \in BOOLEAN :
          \E k \in 1..Abs(LegDataframe(asset)[s].quantity) :
             LET quantity == IF LegDataframe(asset)[s].quantity > 0 THEN -k ELSE k
                 contract_df == market.option_chain[s]
                 premium == IF quantity > 0 THEN contract_df.ask ELSE contract_df.bid
             IN  /\ broker_ok \/ SingleSubmits(enable_trades, quantity, premium)
                 /\ Finish(PlaceSingleOrder(asset, enable_trades, quantity, contract_df,
                                            broker_ok, now),
                           "single",
                           [quantity |-> quantity, symbol |-> s, premium |-> premium,
                            direction |-> SingleDirection(LegDataframe(asset), s,
                                                          quantity)])

NextClose == ClosingOrder

SpecClose == InitClose /\ [][NextClose]_vars

(***************************************************************************)
(* The closing operations as functions of the holding: the ledger of a     *)
(* ratio spread asset is drawn from the ledgers over the contracts of the  *)
(* chain, the position of an accumulative asset from the positions up to   *)
(* MaxQty, and neutralize and probe are applied as the days pass.          *)
(***************************************************************************)
ScanLedgers ==
    UNION { [S -> (-MaxQty..MaxQty) \ {0}] :
            S \in {T \in SUBSET Symbols : Cardinality(T) <= MaxLegs} }

\* Cost per share (cents) at which a drawn position is held.
ShareCosts == {20000, 26000}

\* All-time highs (cents) recorded for a drawn position.
Aths == {25000, 30000}

InitScan ==
    /\ enable_trades \in BOOLEAN
    /\ budget = 100000
    /\ market = Market(QuotesHigh)
    /\ \/ /\ structure = "ratio2"
          /\ now \in 1..MaxNow
          /\ \E quantities \in ScanLedgers :
                asset = [StoredAsset EXCEPT
                            !.leg_db = IF DOMAIN quantities = {} THEN None
                                       ELSE Some(LedgerDb(quantities))]
       \/ /\ structure = "accumulative"
          /\ now = 1
          /\ \E position \in 0..MaxQty, c \in ShareCosts, ath \in Aths :
                asset = IF position = 0
                        THEN [StoredAsset EXCEPT !.ath = Some(ath)]
                        ELSE [StoredAsset EXCEPT
                                 !.position = Some(position),
                                 !.cost = Some(R(position * c)),
                                 !.acquired_at = Some(R(0)),
                                 !.last_trade_price = Some(c),
                                 !.ath = Some(ath)]
    /\ op = [name |-> "init", ret |-> "None", broker |-> << >>]
    /\ steps = 0
    /\ engine = EngineOff

\* The clock advances by a day.
ScanTick ==
    /\ steps < MaxScanSteps
    /\ now < MaxNow
    /\ now' = now + 1
    /\ op' = [name |-> "tick", ret |-> "None", broker |-> << >>]
    /\ steps' = steps + 1
    /\ UNCHANGED <<engine, structure, enable_trades, budget, market, asset>>

\* neutralize of the ratio spread asset.
ScanNeutralize ==
    /\ structure = "ratio2"
    /\ steps < MaxScanSteps
    /\ NeutralizeCall

\* probe of the ratio spread asset.
ScanProbe ==
    /\ structure = "ratio2"
    /\ steps < MaxScanSteps
    /\ ProbeCall

NextScan ==
    \/ ScanTick
    \/ ScanNeutralize
    \/ ScanProbe
    \/ AccumulativeNeutralize
    \/ AccumulativeProbe

SpecScan == InitScan /\ [][NextScan]_vars

(***************************************************************************)
(* The scan-and-adjust driver as a function of the ledger and of the       *)
(* callback it is given: the ledger is drawn as for the closing            *)
(* operations, and the driver is applied with each callback.               *)
(***************************************************************************)
InitDriver ==
    /\ InitScan
    /\ structure = "ratio2"

\* _scan_and_adjust applied to the asset with the callback cb, the broker
\* rejecting as rejects tells.
DriverCall(cb) ==
    /\ steps < MaxScanSteps
    /\ \E rejects \in Rejections :
          \E r \in { ScanAndAdjust(asset, cb, enable_trades, market.option_chain,
                                   rejects, now) } :
              Finish(r, "_scan_and_adjust",
                     [cb |-> cb, handed |-> r.handed, adjusted |-> r.adjusted])

\* The driver with the callback of neutralize.
DriverNeutralize == DriverCall("neutralize")

\* The driver with the callback of probe.
DriverProbe == DriverCall("probe")

\* The driver with the callback closing a call with its put.
DriverHedged == DriverCall("hedged")

NextDriver ==
    \/ ScanTick
    \/ DriverNeutralize
    \/ DriverProbe
    \/ DriverHedged

SpecDriver == InitDriver /\ [][NextDriver]_vars

(***************************************************************************)
(* availability of the accumulative positioning as a function of the       *)
(* budget, the quote and the holding, each drawn from a small set.         *)
(***************************************************************************)
\* Long budgets (cents) drawn.
AvailBudgets == {50000, 100000, 1000000}

\* A snapshot with the underlying at 50.00.
QuotesFifty ==
    [QuotesHigh EXCEPT !.stock = [bid |-> 4990, ask |-> 5000, mark |-> 4995]]

\* Realized profits (cents) drawn; None is an asset without profit.
Profits == {None, Some(R(0)), Some(R(2500)), Some(R(-2500))}

InitAvail ==
    /\ structure = "accumulative"
    /\ enable_trades = FALSE
    /\ budget \in AvailBudgets
    /\ market \in Markets \cup {Market(QuotesFifty)}
    /\ \E position \in 0..MaxQty, profit \in Profits, ath \in {None, Some(30000)} :
          asset = IF position = 0
                  THEN [NewAsset EXCEPT !.profit = profit, !.ath = ath]
                  ELSE [NewAsset EXCEPT
                           !.profit = profit, !.ath = ath,
                           !.position = Some(position),
                           !.cost = Some(R(position * 20000)),
                           !.acquired_at = Some(R(0)),
                           !.last_trade_price = Some(20000)]
    /\ now = 0
    /\ op = [name |-> "init", ret |-> "None", broker |-> << >>]
    /\ steps = 0
    /\ engine = EngineOff

NextAvail == AccumulativeAvailability

SpecAvail == InitAvail /\ [][NextAvail]_vars

(***************************************************************************)
(* The trades of the accumulative positioning while the underlying falls   *)
(* and then rises above the price at which the budget was filled.          *)
(***************************************************************************)
\* Snapshots with the underlying at 0.02, at 0.01, at 0.03, and at 21.00,
\* which is more than 1 / FollowLastTradeAlpha times the lower prices.
QuotesDollar ==
    [QuotesHigh EXCEPT !.stock = [bid |-> 2, ask |-> 2, mark |-> 2]]

QuotesEighty ==
    [QuotesHigh EXCEPT !.stock = [bid |-> 1, ask |-> 1, mark |-> 1]]

QuotesRally ==
    [QuotesHigh EXCEPT !.stock = [bid |-> 3, ask |-> 3, mark |-> 3]]

QuotesSurge ==
    [QuotesHigh EXCEPT !.stock = [bid |-> 2000, ask |-> 2100, mark |-> 2050]]

RallyMarkets ==
    { Market(QuotesDollar), Market(QuotesEighty), Market(QuotesRally),
      Market(QuotesSurge) }

\* The long budget of the asset, in cents: two shares at 0.02.
RallyBudget == 4

InitRally ==
    /\ structure = "accumulative"
    /\ enable_trades \in BOOLEAN
    /\ budget = RallyBudget
    /\ market \in RallyMarkets
    /\ asset \in {NewAsset, StoredAsset}
    /\ now = 0
    /\ op = [name |-> "init", ret |-> "None", broker |-> << >>]
    /\ steps = 0
    /\ engine = EngineOff

\* An operation of the run: the position stays within MaxShares.
RallyFinish(r, name, args) ==
    /\ steps < MaxRallySteps
    /\ Position(r.asset) <= MaxShares
    /\ asset' = r.asset
    /\ op' = [name |-> name, args |-> args, ret |-> r.ret, broker |-> r.broker]
    /\ steps' = steps + 1
    /\ UNCHANGED <<engine, structure, enable_trades, budget, market, now>>

\* A market-data event replaces the quotes.
RallyMarketData ==
    /\ steps < MaxRallySteps
    /\ \E m \in RallyMarkets \ {market} : market' = m
    /\ op' = [name |-> "market_data", ret |-> "None", broker |-> << >>]
    /\ steps' = steps + 1
    /\ UNCHANGED <<engine, structure, enable_trades, budget, asset, now>>

\* place_bullish_trade
RallyPlaceBullishTrade ==
    \E growth \in Growths, broker_ok \in BOOLEAN :
        \E r \in { AccPlaceBullishTrade(asset, Some(Budget(budget)), enable_trades,
                                         market.quote, broker_ok, now, growth) } :
            /\ broker_ok \/ Len(r.broker) >= 1
            /\ RallyFinish(r, "place_bullish_trade", [price |-> market.quote.ask])

\* place_bearish_trade
RallyPlaceBearishTrade ==
    \E growth \in Growths, broker_ok \in BOOLEAN :
        \E r \in { AccPlaceBearishTrade(asset, Some(Budget(budget)), enable_trades,
                                         market.quote, broker_ok, now, growth) } :
            /\ broker_ok \/ Len(r.broker) >= 1
            /\ RallyFinish(r, "place_bearish_trade", [price |-> market.quote.bid])

\* neutralize
RallyNeutralize ==
    \E growth \in Growths, broker_ok \in BOOLEAN :
        \E r \in { AccNeutralize(asset, Some(Budget(budget)), enable_trades,
                                  market.quote, broker_ok, now, growth) } :
            /\ broker_ok \/ Len(r.broker) >= 1
            /\ RallyFinish(r, "neutralize", [price |-> market.quote.bid])

\* probe
RallyProbe ==
    \E growth \in Growths, broker_ok \in BOOLEAN :
        \E r \in { AccProbe(asset, Some(Budget(budget)), enable_trades, market.quote,
                             broker_ok, now, growth) } :
            /\ broker_ok \/ Len(r.broker) >= 1
            /\ RallyFinish(r, "probe", [price |-> market.quote.ask])

NextRally ==
    \/ RallyMarketData
    \/ RallyPlaceBullishTrade
    \/ RallyPlaceBearishTrade
    \/ RallyNeutralize
    \/ RallyProbe

SpecRally == InitRally /\ [][NextRally]_vars

(***************************************************************************)
(* The leg ledger under its two order primitives alone: an asset without   *)
(* legs and with a profit of zero takes single-leg orders and spread       *)
(* orders on two different contracts, while the quotes move between the    *)
(* orders.  The history variable op keeps, in args.trades, the legs of the *)
(* orders that returned True: the signed quantity, the symbol and the      *)
(* premium each leg traded at.                                             *)
(***************************************************************************)
InitLedger ==
    /\ structure = "ratio2"
    /\ enable_trades \in BOOLEAN
    /\ budget = 0
    /\ market = Market(QuotesHigh)
    /\ asset = StoredAsset
    /\ now = 0
    /\ op = [name |-> "init", args |-> [trades |-> << >>], ret |-> "None",
             broker |-> << >>]
    /\ steps = 0
    /\ engine = EngineOff

LedgerFinish(r, name, trades) ==
    /\ steps < MaxLedgerSteps
    /\ WithinBound(r.asset)
    /\ asset' = r.asset
    /\ op' = [name |-> name,
              args |-> [trades |-> IF r.ret = "True" THEN op.args.trades \o trades
                                   ELSE op.args.trades],
              ret |-> r.ret, broker |-> r.broker]
    /\ steps' = steps + 1
    /\ UNCHANGED <<engine, structure, enable_trades, budget, market, now>>

\* A market-data event replaces the quotes.
LedgerMarketData ==
    /\ steps < MaxLedgerSteps
    /\ \E m \in Markets \ {market} : market' = m
    /\ op' = [op EXCEPT !.name = "market_data", !.ret = "None", !.broker = << >>]
    /\ steps' = steps + 1
    /\ UNCHANGED <<engine, structure, enable_trades, budget, asset, now>>

\* _place_single_order on a contract of the chain.
LedgerSingleOrder ==
    \E s \in Symbols, quantity \in -MaxQty..MaxQty, broker_ok \in BOOLEAN :
        LET contract_df == market.option_chain[s]
            premium == IF quantity > 0 THEN contract_df.ask ELSE contract_df.bid
        IN  /\ broker_ok \/ SingleSubmits(enable_trades, quantity, premium)
            /\ LedgerFinish(PlaceSingleOrder(asset, enable_trades, quantity, contract_df,
                                             broker_ok, now),
                            "single",
                            << [quantity |-> quantity, symbol |-> s,
                                premium |-> premium] >>)

\* _place_spread_order on two different contracts of the chain.
LedgerSpreadOrder ==
    \E buy \in Symbols, sell \in Symbols, quantity \in 1..MaxSpreadQty,
       broker_ok \in BOOLEAN :
        LET buy_df == market.option_chain[buy]
            sell_df == market.option_chain[sell]
        IN  /\ buy # sell
            /\ broker_ok \/ (enable_trades /\ sell_df.bid >= MIN_SELL_PREMIUM)
            /\ LedgerFinish(PlaceSpreadOrder(asset, enable_trades, quantity, buy_df,
                                             sell_df, broker_ok, now),
                            "spread",
                            << [quantity |-> quantity, symbol |-> buy,
                                premium |-> buy_df.ask],
                               [quantity |-> -quantity, symbol |-> sell,
                                premium |-> sell_df.bid] >>)

NextLedger == LedgerMarketData \/ LedgerSingleOrder \/ LedgerSpreadOrder

SpecLedger == InitLedger /\ [][NextLedger]_vars

(***************************************************************************)
(* The ratio spread asset under its public operations alone, from an asset *)
(* without legs: place_bullish_trade, place_bearish_trade, probe and       *)
(* neutralize, with the clock and the quotes moving between the calls.     *)
(* The ledger is not bounded here; the number of calls is.                 *)
(***************************************************************************)
InitPublic ==
    /\ structure = "ratio2"
    /\ enable_trades \in BOOLEAN
    /\ budget \in Budgets
    /\ market = Market(QuotesHigh)
    /\ asset \in {NewAsset, StoredAsset}
    /\ now = 0
    /\ op = [name |-> "init", ret |-> "None", broker |-> << >>]
    /\ steps = 0
    /\ engine = EngineOff

PublicFinish(r, name, args) ==
    /\ steps < MaxPublicSteps
    /\ asset' = r.asset
    /\ op' = [name |-> name, args |-> args, ret |-> r.ret, broker |-> r.broker]
    /\ steps' = steps + 1
    /\ UNCHANGED <<engine, structure, enable_trades, budget, market, now>>

\* The clock advances by a day.
PublicTick ==
    /\ steps < MaxPublicSteps
    /\ now < MaxPublicDay
    /\ now' = now + 1
    /\ op' = [name |-> "tick", ret |-> "None", broker |-> << >>]
    /\ steps' = steps + 1
    /\ UNCHANGED <<engine, structure, enable_trades, budget, market, asset>>

\* A market-data event replaces the quotes.
PublicMarketData ==
    /\ steps < MaxPublicSteps
    /\ \E m \in Markets \ {market} : market' = m
    /\ op' = [name |-> "market_data", ret |-> "None", broker |-> << >>]
    /\ steps' = steps + 1
    /\ UNCHANGED <<engine, structure, enable_trades, budget, asset, now>>

PublicPlaceBullishTrade ==
    \E has_data \in BOOLEAN, ok1 \in BOOLEAN, ok2 \in BOOLEAN :
        \E r \in { PlaceBullishTrade(asset, Some(Budget(budget)), enable_trades, has_data,
                                      market.option_chain, market.quote.mark,
                                      ok1, ok2, now) } :
            /\ ok1 \/ Len(r.broker) >= 1
            /\ ok2 \/ Len(r.broker) >= 2
            /\ PublicFinish(r, "place_bullish_trade", [has_data |-> has_data])

PublicPlaceBearishTrade ==
    /\ structure = "ratio2"
    /\ PublicFinish(PlaceBearishTrade(asset), "place_bearish_trade", [has_data |-> TRUE])

PublicNeutralize ==
    \E rejects \in Rejections :
        \E r \in { Neutralize(asset, enable_trades, market.option_chain, rejects,
                              now) } :
            PublicFinish(r, "neutralize",
                         [visited |-> r.visited, adjusted |-> r.adjusted])

PublicProbe ==
    \E rejects \in Rejections :
        \E r \in { Probe(asset, enable_trades, market.option_chain, rejects, now) } :
            PublicFinish(r, "probe",
                         [visited |-> r.visited, adjusted |-> r.adjusted])

NextPublic ==
    \/ PublicTick
    \/ PublicMarketData
    \/ PublicPlaceBullishTrade
    \/ PublicPlaceBearishTrade
    \/ PublicNeutralize
    \/ PublicProbe

SpecPublic == InitPublic /\ [][NextPublic]_vars

(***************************************************************************)
(* The budget resolver as a function of a list: the list is drawn from the *)
(* lists of up to MaxLen amounts between -MaxAmount and MaxAmount, and     *)
(* budget is applied to it.                                                *)
(***************************************************************************)
BudgetLists ==
    UNION { [1..n -> -MaxAmount..MaxAmount] : n \in 0..MaxLen }

InitBudget ==
    /\ structure = "ratio2"
    /\ enable_trades = FALSE
    /\ budget \in BudgetLists
    /\ market = Market(QuotesHigh)
    /\ asset = NewAsset
    /\ now = 0
    /\ op = [name |-> "init", ret |-> "None", broker |-> << >>]
    /\ steps = 0
    /\ engine = EngineOff

\* budget, applied to the list of the asset.
ResolveBudget ==
    /\ steps = 0
    /\ \E r \in { BudgetList(budget) } :
          op' = [name |-> "budget", args |-> [specs |-> r],
                 ret |-> IF Has(r) THEN "ok" ELSE "None", broker |-> << >>]
    /\ steps' = steps + 1
    /\ UNCHANGED <<engine, structure, enable_trades, budget, market, asset, now>>

NextBudget == ResolveBudget

SpecBudget == InitBudget /\ [][NextBudget]_vars

(***************************************************************************)
(* Assets by budget configuration: the resolver, availability and the      *)
(* trades of both positionings on every shape of the budget entry.         *)
(***************************************************************************)
\* Amounts of the configuration (cents).
ConfigAmounts == {-50000, 0, 50000, 100000}

\* Units a dict may carry: those of BudgetUnit and one that is none of them.
ConfigUnits == {Some("dollar"), Some("share"), Some("euro")}

\* The budget entries drawn: none, or a scalar or a list of up to MaxLen
\* amounts, bare or wrapped in a dict with or without a unit.
BudgetEntries ==
    { BudgetEntry(FALSE, FALSE, None, FALSE, <<0>>) }
    \cup { BudgetEntry(TRUE, w[1], w[2], FALSE, <<v>>) :
              w \in ({<<FALSE, None>>} \cup ({TRUE} \X ({None} \cup ConfigUnits))),
              v \in ConfigAmounts }
    \cup { BudgetEntry(TRUE, w[1], w[2], TRUE, l) :
              w \in ({<<FALSE, None>>} \cup ({TRUE} \X ({None} \cup ConfigUnits))),
              l \in UNION { [1..n -> ConfigAmounts] : n \in 0..MaxLen } }

InitConfig ==
    /\ structure \in {"ratio2", "accumulative"}
    /\ enable_trades \in BOOLEAN
    /\ budget \in BudgetEntries
    /\ market = Market(QuotesHigh)
    /\ asset \in {NewAsset, StoredAsset}
    /\ now = 0
    /\ op = [name |-> "init", ret |-> "None", broker |-> << >>]
    /\ steps = 0
    /\ engine = EngineOff

\* budget, applied to the budget entry of the asset.
ConfigBudget ==
    /\ steps < MaxConfigSteps
    /\ \E r \in { AssetBudget(budget) } :
          Finish([asset |-> asset, ret |-> r.ret, broker |-> << >>],
                 "budget", [specs |-> r.specs])

\* availability of the ratio spread asset.
ConfigRatioAvailability ==
    /\ structure = "ratio2"
    /\ steps < MaxConfigSteps
    /\ \E r \in { Availability(asset, AssetBudget(budget).specs) } :
          Finish([asset |-> r.asset, ret |-> r.ret, broker |-> << >>],
                 "availability",
                 [specs |-> IF r.ret = "ok" THEN Some(r.specs) ELSE None])

\* place_bullish_trade of the ratio spread asset.
ConfigRatioPlaceBullishTrade ==
    /\ structure = "ratio2"
    /\ steps < MaxConfigSteps
    /\ \E has_data \in BOOLEAN, ok1 \in BOOLEAN, ok2 \in BOOLEAN :
          \E r \in { PlaceBullishTrade(asset, AssetBudget(budget).specs,
                                        enable_trades, has_data, market.option_chain,
                                        market.quote.mark, ok1, ok2, now) } :
              /\ ok1 \/ Len(r.broker) >= 1
              /\ ok2 \/ Len(r.broker) >= 2
              /\ Finish(r, "place_bullish_trade", [has_data |-> has_data])

\* place_bearish_trade of the ratio spread asset.
ConfigRatioPlaceBearishTrade ==
    /\ structure = "ratio2"
    /\ steps < MaxConfigSteps
    /\ Finish(PlaceBearishTrade(asset), "place_bearish_trade", [has_data |-> TRUE])

\* availability of the accumulative asset.
ConfigAccumulativeAvailability ==
    /\ structure = "accumulative"
    /\ steps < MaxConfigSteps
    /\ \E r \in { AccAvailability(asset, AssetBudget(budget).specs, market.quote) } :
          Finish([asset |-> r.asset, ret |-> r.ret, broker |-> << >>],
                 "availability",
                 [specs |-> IF r.ret = "ok" THEN Some(r.specs) ELSE None])

\* place_bullish_trade of the accumulative asset.
ConfigAccumulativePlaceBullishTrade ==
    /\ structure = "accumulative"
    /\ steps < MaxConfigSteps
    /\ \E growth \in Growths, broker_ok \in BOOLEAN :
          \E r \in { AccPlaceBullishTrade(asset, AssetBudget(budget).specs,
                                           enable_trades, market.quote, broker_ok,
                                           now, growth) } :
              /\ broker_ok \/ Len(r.broker) >= 1
              /\ Finish(r, "place_bullish_trade", [price |-> market.quote.ask])

\* place_bearish_trade of the accumulative asset.
ConfigAccumulativePlaceBearishTrade ==
    /\ structure = "accumulative"
    /\ steps < MaxConfigSteps
    /\ \E growth \in Growths, broker_ok \in BOOLEAN :
          \E r \in { AccPlaceBearishTrade(asset, AssetBudget(budget).specs,
                                           enable_trades, market.quote, broker_ok,
                                           now, growth) } :
              /\ broker_ok \/ Len(r.broker) >= 1
              /\ Finish(r, "place_bearish_trade",
                        [price |-> market.quote.bid, growth |-> growth])

NextConfig ==
    \/ ConfigBudget
    \/ ConfigRatioAvailability
    \/ ConfigRatioPlaceBullishTrade
    \/ ConfigRatioPlaceBearishTrade
    \/ ConfigAccumulativeAvailability
    \/ ConfigAccumulativePlaceBullishTrade
    \/ ConfigAccumulativePlaceBearishTrade

SpecConfig == InitConfig /\ [][NextConfig]_vars

(***************************************************************************)
(* The queries of both positionings on drawn holdings: ledgers of up to    *)
(* MaxLegs legs or positions of up to MaxQty shares, with or without a     *)
(* realized profit; an asset that holds legs has been through a cost       *)
(* computation and has its profit and slippage.                            *)
(***************************************************************************)
InitQuery ==
    /\ enable_trades = FALSE
    /\ budget \in AvailBudgets
    /\ market \in Markets
    /\ \E profit \in Profits :
          \/ /\ structure = "ratio2"
             /\ \E quantities \in {q \in ScanLedgers : Has(profit) \/ DOMAIN q = {}} :
                   asset = [NewAsset EXCEPT
                               !.profit = profit,
                               !.slippage = IF Has(profit) THEN Some(R(0)) ELSE None,
                               !.leg_db = IF DOMAIN quantities = {} THEN None
                                          ELSE Some(LedgerDb(quantities))]
          \/ /\ structure = "accumulative"
             /\ \E position \in 0..MaxQty, c \in ShareCosts,
                   ath \in {None} \cup {Some(x) : x \in Aths} :
                   asset = IF position = 0
                           THEN [NewAsset EXCEPT !.profit = profit, !.ath = ath]
                           ELSE [NewAsset EXCEPT
                                    !.profit = profit, !.ath = ath,
                                    !.position = Some(position),
                                    !.cost = Some(R(position * c)),
                                    !.acquired_at = Some(R(0)),
                                    !.last_trade_price = Some(c)]
    /\ now = 0
    /\ op = [name |-> "init", ret |-> "None", broker |-> << >>]
    /\ steps = 0
    /\ engine = EngineOff

\* cost_per_unit of the ratio spread asset.
RatioCostPerUnit ==
    /\ structure = "ratio2"
    /\ steps < MaxQuerySteps
    /\ \E has_chain \in BOOLEAN :
          \E r \in { CostPerUnit(asset, has_chain, market.option_chain) } :
             Finish([asset |-> r.asset, ret |-> "ok", broker |-> << >>],
                    "cost_per_unit", [value |-> r.value])

\* cost_with_margin of the ratio spread asset.
RatioQueryCostWithMargin ==
    /\ structure = "ratio2"
    /\ steps < MaxQuerySteps
    /\ \E r \in { RatioCostWithMargin(asset) } :
          Finish([asset |-> r.asset, ret |-> "ok", broker |-> << >>],
                 "cost_with_margin", [value |-> r.value])

\* delta of the ratio spread asset.
RatioDelta ==
    /\ structure = "ratio2"
    /\ steps < MaxQuerySteps
    /\ \E has_chain \in BOOLEAN :
          Finish([asset |-> asset, ret |-> "ok", broker |-> << >>],
                 "delta", [value |-> Delta(asset, has_chain, market.option_chain)])

\* market_value of the ratio spread asset.
RatioMarketValue ==
    /\ structure = "ratio2"
    /\ steps < MaxQuerySteps
    /\ \E r \in { MarketValue(asset, market.option_chain) } :
          Finish([asset |-> r.asset, ret |-> "ok", broker |-> << >>],
                 "market_value", [value |-> r.value])

\* cost_per_unit of the accumulative asset.
AccumulativeCostPerUnit ==
    /\ structure = "accumulative"
    /\ steps < MaxQuerySteps
    /\ Finish([asset |-> asset, ret |-> "ok", broker |-> << >>],
              "cost_per_unit", [value |-> AccCostPerUnit(asset)])

\* cost_with_margin of the accumulative asset.
AccumulativeCostWithMargin ==
    /\ structure = "accumulative"
    /\ steps < MaxQuerySteps
    /\ Finish([asset |-> asset, ret |-> "ok", broker |-> << >>],
              "cost_with_margin", [value |-> AccCostWithMargin(asset)])

\* delta of the accumulative asset.
AccumulativeDelta ==
    /\ structure = "accumulative"
    /\ steps < MaxQuerySteps
    /\ Finish([asset |-> asset, ret |-> "ok", broker |-> << >>],
              "delta", [value |-> AccDelta(asset)])

\* market_value of the accumulative asset.
AccumulativeMarketValue ==
    /\ structure = "accumulative"
    /\ steps < MaxQuerySteps
    /\ Finish([asset |-> asset, ret |-> "ok", broker |-> << >>],
              "market_value", [value |-> AccMarketValue(asset, market.quote)])

NextQuery ==
    \/ RatioAvailability
    \/ AccumulativeAvailability
    \/ RatioCostPerUnit
    \/ RatioQueryCostWithMargin
    \/ RatioDelta
    \/ RatioMarketValue
    \/ AccumulativeCostPerUnit
    \/ AccumulativeCostWithMargin
    \/ AccumulativeDelta
    \/ AccumulativeMarketValue

SpecQuery == InitQuery /\ [][NextQuery]_vars

(***************************************************************************)
(* The broker backend (backend/tda.py) under the executors: every call of  *)
(* the backend falls within or outside the normal market hours.            *)
(***************************************************************************)
\* place_market_order posting in every session.
PlaceMarketOrderAnyHours(normal_market_hours, order) ==
    [ret |-> TRUE, posted |-> <<order>>]

\* place_market_order: outside the normal market hours False is returned and
\* nothing posted; within them the order is posted and True returned.
PlaceMarketOrder(normal_market_hours, order) ==
    IF ~normal_market_hours
    THEN [ret |-> FALSE, posted |-> << >>]
    ELSE [ret |-> TRUE, posted |-> <<order>>]

\* place_multi_leg_market_order: the same for the leg orders of a spread.
PlaceMultiLegMarketOrder(normal_market_hours, leg_orders) ==
    IF ~normal_market_hours
    THEN [ret |-> FALSE, posted |-> << >>]
    ELSE [ret |-> TRUE, posted |-> <<leg_orders>>]

\* A single-leg order whose backend call falls in a drawn session.
SessionSingleOrder ==
    /\ structure = "ratio2"
    /\ MayStep
    /\ \E s \in Symbols, quantity \in -MaxQty..MaxQty, normal_market_hours \in BOOLEAN :
          \E r \in { PlaceSingleOrder(asset, enable_trades, quantity,
                                       market.option_chain[s],
                                       PlaceMarketOrder(normal_market_hours, s).ret,
                                       now) } :
             Finish(r, "single",
                    [quantity |-> quantity, symbol |-> s,
                     normal_market_hours |-> normal_market_hours,
                     posted |-> IF r.broker = << >> THEN << >>
                                ELSE PlaceMarketOrder(normal_market_hours,
                                                      r.broker[1]).posted])

\* A spread order whose backend call falls in a drawn session.
SessionSpreadOrder ==
    /\ structure = "ratio2"
    /\ MayStep
    /\ \E buy \in Symbols, sell \in Symbols, quantity \in 1..MaxSpreadQty,
          normal_market_hours \in BOOLEAN :
          \E r \in { PlaceSpreadOrder(asset, enable_trades, quantity,
                                       market.option_chain[buy],
                                       market.option_chain[sell],
                                       PlaceMultiLegMarketOrder(normal_market_hours,
                                                                <<buy, sell>>).ret,
                                       now) } :
             Finish(r, "spread",
                    [quantity |-> quantity, symbol |-> buy, short_symbol |-> sell,
                     normal_market_hours |-> normal_market_hours,
                     posted |-> IF r.broker = << >> THEN << >>
                                ELSE PlaceMultiLegMarketOrder(normal_market_hours,
                                                              r.broker[1]).posted])

\* place_bullish_trade of the accumulative asset, its backend call falling
\* in a drawn session.
SessionStockOrder ==
    /\ structure = "accumulative"
    /\ MayStep
    /\ \E growth \in Growths, normal_market_hours \in BOOLEAN :
          \E r \in { AccPlaceBullishTrade(asset, Some(Budget(budget)), enable_trades,
                                           market.quote,
                                           PlaceMarketOrder(normal_market_hours,
                                                            "stock").ret,
                                           now, growth) } :
             Finish(r, "place_bullish_trade",
                    [price |-> market.quote.ask,
                     normal_market_hours |-> normal_market_hours,
                     posted |-> IF r.broker = << >> THEN << >>
                                ELSE PlaceMarketOrder(normal_market_hours,
                                                      r.broker[1]).posted])

NextSession ==
    \/ SessionSingleOrder
    \/ SessionSpreadOrder
    \/ SessionStockOrder
    \/ MarketData

SpecSession == Init /\ [][NextSession]_vars

(***************************************************************************)
(* The trader process (bin/asset_trader.py), from the moment it listens to *)
(* its streams: quote events are merged into the quote database and handed *)
(* to the registered callbacks, history events store the assets, and after *)
(* the stop flag is set the process leaves its streams and stores the      *)
(* assets.  The process runs MaxAssets assets; the runtime state of the    *)
(* first is the variable asset, an accumulative asset with the strategy    *)
(* buy, and the state of the others is not held.                           *)
(***************************************************************************)
\* The tickers quoted.
Tickers == {"T1", "T2"}

\* The quote patches of one event, by ticker.
PatchLists == UNION { [1..n -> Tickers] : n \in 0..MaxPatches }

\* CbFunctions with the probes registered first.
CbFunctionsProbesFirst == <<"cb_run_probes", "cb_run_strategies">>

\* cb_functions of subscribe_to_quotes, in the order of registration.
CbFunctions == <<"cb_run_strategies", "cb_run_probes">>

\* The time of a call: outside the normal market hours, within them, or
\* within the hours of trade as well.
Sessions == {"closed", "normal", "tradable"}

InitEngine ==
    /\ structure = "accumulative"
    /\ enable_trades \in BOOLEAN
    /\ budget = 100000
    /\ market \in Markets
    /\ asset \in {NewAsset, StoredAsset}
    /\ now = 1
    /\ op = [name |-> "main", ret |-> "None", broker |-> << >>]
    /\ steps = 0
    /\ \E n \in 0..MaxStreams, active \in SUBSET (1..MaxAssets) :
          engine = [pc |-> "listening", done |-> FALSE, streams |-> n,
                    released |-> 0, file |-> asset, shutdown |-> << >>,
                    active |-> active, event |-> 0, patches |-> << >>,
                    tickers |-> << >>, quote_db |-> [t \in Tickers |-> 0],
                    cb_idx |-> 1, asset_idx |-> 1, log |-> << >>]

\* A step of the process that leaves the asset alone.
EngineStep(name, e) ==
    /\ engine' = e
    /\ op' = [name |-> name, ret |-> "None", broker |-> << >>]
    /\ UNCHANGED <<structure, enable_trades, budget, market, asset, now, steps>>

\* sh_mark_done: the signal sets the stop flag, whatever the process does.
ShMarkDone ==
    /\ engine.pc # "done"
    /\ ~engine.done
    /\ EngineStep("sh_mark_done", [engine EXCEPT !.done = TRUE])

\* A stream delivers a quote event: _cb_patch_instrument_quotes begins.
QuoteEvent ==
    /\ engine.pc = "listening"
    /\ ~engine.done
    /\ engine.streams > 0
    /\ engine.event < MaxEvents
    /\ \E quote_patches \in PatchLists :
          EngineStep("quote_event",
                     [engine EXCEPT !.event = @ + 1, !.patches = quote_patches,
                                    !.tickers = << >>, !.log = << >>,
                                    !.cb_idx = 1, !.asset_idx = 1,
                                    !.pc = IF quote_patches = << >>
                                           THEN "callbacks" ELSE "merging"])

\* One turn of the loop over quote_patches: the patch is merged into the
\* quote database.
MergePatch ==
    /\ engine.pc = "merging"
    /\ EngineStep("merge",
                  [engine EXCEPT !.quote_db[Head(engine.patches)] = engine.event,
                                 !.tickers = Append(@, Head(engine.patches)),
                                 !.patches = Tail(@),
                                 !.pc = IF Tail(engine.patches) = << >>
                                        THEN "callbacks" ELSE "merging"])

\* The process after one turn of the loop of a callback over the assets:
\* at the next asset, else at the next callback, else listening again.
NextTurn(e, ran) ==
    LET logged == IF ran
                  THEN [e EXCEPT !.log = Append(@, <<CbFunctions[e.cb_idx], e.asset_idx>>)]
                  ELSE e
    IN  IF e.asset_idx < MaxAssets
        THEN [logged EXCEPT !.asset_idx = @ + 1]
        ELSE IF e.cb_idx < Len(CbFunctions)
        THEN [logged EXCEPT !.cb_idx = @ + 1, !.asset_idx = 1]
        ELSE [logged EXCEPT !.pc = "listening"]

\* One turn of the loop of a callback for an asset whose state is held: the
\* asset becomes r.asset.
HeldTurn(name, r) ==
    /\ engine' = NextTurn(engine, TRUE)
    /\ asset' = r.asset
    /\ op' = [name |-> name, ret |-> r.ret, broker |-> r.broker]
    /\ UNCHANGED <<structure, enable_trades, budget, market, now, steps>>

\* One turn of the loop of cb_run_strategies: an inactive asset is skipped;
\* the strategy of an active one is executed within the hours of trade.
RunStrategy ==
    /\ engine.pc = "callbacks"
    /\ CbFunctions[engine.cb_idx] = "cb_run_strategies"
    /\ IF engine.asset_idx \notin engine.active
       THEN EngineStep("cb_run_strategies", NextTurn(engine, FALSE))
       ELSE IF engine.asset_idx # 1
       THEN EngineStep("cb_run_strategies", NextTurn(engine, TRUE))
       ELSE \E session \in Sessions, growth \in Growths, broker_ok \in BOOLEAN :
               IF session # "tradable"
               THEN EngineStep("cb_run_strategies", NextTurn(engine, TRUE))
               ELSE \E r \in { AccPlaceBullishTrade(asset, Some(Budget(budget)),
                                    enable_trades, market.quote, broker_ok, now,
                                    growth) } :
                       /\ broker_ok \/ Len(r.broker) >= 1
                       /\ HeldTurn("cb_run_strategies", r)

\* One turn of the loop of cb_run_probes: an inactive asset is skipped; an
\* active one is probed within the hours of trade.
RunProbe ==
    /\ engine.pc = "callbacks"
    /\ CbFunctions[engine.cb_idx] = "cb_run_probes"
    /\ IF engine.asset_idx \notin engine.active
       THEN EngineStep("cb_run_probes", NextTurn(engine, FALSE))
       ELSE IF engine.asset_idx # 1
       THEN EngineStep("cb_run_probes", NextTurn(engine, TRUE))
       ELSE \E session \in Sessions, growth \in Growths, broker_ok \in BOOLEAN :
               IF session # "tradable"
               THEN EngineStep("cb_run_probes", NextTurn(engine, TRUE))
               ELSE \E r \in { AccProbe(asset, Some(Budget(budget)), enable_trades,
                                         market.quote, broker_ok, now, growth) } :
                       /\ broker_ok \/ Len(r.broker) >= 1
                       /\ HeldTurn("cb_run_probes", r)

\* A stream delivers a history event: its callback _cb_store_assets stores
\* the assets within the normal market hours.
HistoryEvent ==
    /\ engine.pc = "listening"
    /\ ~engine.done
    /\ engine.streams > 0
    /\ engine.event < MaxEvents
    /\ \E session \in Sessions :
          EngineStep("history_event",
                     [engine EXCEPT !.event = @ + 1, !.tickers = << >>,
                                    !.log = << >>,
                                    !.file = IF session = "closed" THEN @ ELSE asset])

\* listen_to_streams returns: the stop flag is set, or there is no stream.
EndListening ==
    /\ engine.pc = "listening"
    /\ engine.done \/ engine.streams = 0
    /\ EngineStep("listen_to_streams", [engine EXCEPT !.pc = "disconnecting"])

\* One turn of the loop of disconnect_from_streams.
Disconnect ==
    /\ engine.pc = "disconnecting"
    /\ engine.released < engine.streams
    /\ EngineStep("disconnect_from_stream",
                  [engine EXCEPT !.released = @ + 1,
                                 !.shutdown = Append(@, "disconnect_from_stream")])

\* store_assets of main, after disconnect_from_streams.
StoreAssets ==
    /\ engine.pc = "disconnecting"
    /\ engine.released = engine.streams
    /\ EngineStep("store_assets",
                  [engine EXCEPT !.file = asset,
                                 !.shutdown = Append(@, "store_assets"),
                                 !.pc = "done"])

NextEngine ==
    \/ ShMarkDone
    \/ QuoteEvent
    \/ MergePatch
    \/ RunStrategy
    \/ RunProbe
    \/ HistoryEvent
    \/ EndListening
    \/ Disconnect
    \/ StoreAssets

SpecEngine == InitEngine /\ [][NextEngine]_vars

(***************************************************************************)
(* Properties.                                                             *)
(***************************************************************************)
\* The ledger entry of symbol s, if any.
LegOf(a, s) ==
    IF s \in DOMAIN LegDataframe(a) THEN Some(LegDataframe(a)[s]) ELSE None

\* Realized profit, 0 while the asset has none.
ProfitOf(a) == IF Has(a.profit) THEN Val(a.profit) ELSE R(0)

\* The operation applied an order of the executor.
IsOrder(o) == o.name \in {"single", "spread"}

\* The order went past the broker and updated the ledger.
Ledgered(o) == o.ret \in {"True", "raise"}

\* The broker was called and reported failure.
BrokerFailed(o) == o.broker # << >> /\ ~o.broker[Len(o.broker)].ok

\* Average cost per unit of a leg.
UnitCost(leg) == RDiv(leg.cost, R(leg.quantity * leg.shares_per_contract))

\* Profit of closing k contracts of a leg at `exit` per unit: k x multiplier x
\* sign x (C - exit) less the commission of the k contracts.
ExpectedClose(leg, k, sign, exit) ==
    RSub(RMul(R(k * leg.shares_per_contract * sign), RSub(UnitCost(leg), R(exit))),
         R(k * COMMISSION_PER_CONTRACT))

\* C1: after any sequence of single-leg and spread orders, accepted or
\* rejected, no entry of the leg ledger has quantity 0: a leg whose quantity
\* reaches 0 is deleted by the order that brings it there.
C1_NoZeroQuantityLeg ==
    \A s \in DOMAIN LegDataframe(asset) : LegDataframe(asset)[s].quantity # 0

\* A single order has closed a leg exactly, and the leg is gone.
C1_LegClosedAndDeleted ==
    /\ op.name = "single"
    /\ op.ret = "True"
    /\ op.args.direction \in {"BUY_TO_CLOSE", "SELL_TO_CLOSE"}
    /\ op.args.symbol \notin DOMAIN LegDataframe(asset)

\* C2: when the broker call of a single-leg or spread order reports failure,
\* the order returns False and the asset (ledger, leg costs, profit,
\* slippage) is what it was before; and a spread order on two contracts
\* changes the entry of one of them only if it changes the entry of the other.
C2_BrokerFailureChangesNothing ==
    [][ /\ (IsOrder(op') /\ BrokerFailed(op'))
            => (op'.ret = "False" /\ asset' = asset)
        /\ (op'.name = "spread" /\ op'.args.symbol # op'.args.short_symbol)
            => ((LegOf(asset', op'.args.symbol) # LegOf(asset, op'.args.symbol))
                <=> (LegOf(asset', op'.args.short_symbol)
                        # LegOf(asset, op'.args.short_symbol)))
      ]_vars

\* The broker has failed a spread order on an asset holding legs.
C2_SpreadFailedOnLedger ==
    /\ op.name = "spread"
    /\ BrokerFailed(op)
    /\ op.ret = "False"
    /\ DOMAIN LegDataframe(asset) # {}

\* C3: with trading enabled, a single-leg or spread order changes the ledger
\* (legs, costs, profit, slippage) only if the broker was called for it and
\* reported success, and the broker is called for every order, whatever its
\* quantity and premium.
C3_LedgerOnlyThroughBroker ==
    [][ (IsOrder(op') /\ enable_trades /\ op'.args.quantity # 0)
            => /\ op'.broker # << >>
               /\ (asset' # asset) => (op'.broker # << >> /\ op'.broker[1].ok)
      ]_vars

\* C4: an order closing k < N contracts of a leg held at average cost C per
\* unit adds k x multiplier x sign x (C - exit price), less the commission of
\* the k contracts, to the realized profit and leaves N - k contracts at cost
\* C per unit, for long and short legs, for single orders and for the legs of
\* a spread order on two contracts; a sale of k < N shares of an accumulative
\* position, on which no commission is charged, adds k x (exit price - C) and
\* leaves N - k shares at cost C per share.
C4_PartialCloseKeepsUnitCost ==
    [][ /\ (/\ op'.name = "single"
            /\ Ledgered(op')
            /\ op'.args.direction \in {"BUY_TO_CLOSE", "SELL_TO_CLOSE"}
            /\ Abs(op'.args.quantity) < Abs(LegDataframe(asset)[op'.args.symbol].quantity))
           => LET leg == LegDataframe(asset)[op'.args.symbol]
                  after == LegOf(asset', op'.args.symbol)
              IN  /\ RSub(ProfitOf(asset'), ProfitOf(asset))
                        = ExpectedClose(leg, Abs(op'.args.quantity),
                                        Sign(op'.args.quantity), op'.args.premium)
                  /\ Has(after)
                  /\ Val(after).quantity = leg.quantity + op'.args.quantity
                  /\ UnitCost(Val(after)) = UnitCost(leg)
        /\ (/\ op'.name = "spread"
            /\ Ledgered(op')
            /\ op'.args.symbol # op'.args.short_symbol)
           => LET long == LegOf(asset, op'.args.symbol)
                  short == LegOf(asset, op'.args.short_symbol)
                  q == op'.args.quantity
                  closes_long == Has(long) /\ Val(long).quantity < 0
                  closes_short == Has(short) /\ Val(short).quantity > 0
                  part_long == closes_long /\ q < Abs(Val(long).quantity)
                  part_short == closes_short /\ q < Val(short).quantity
                  long_profit ==
                      IF closes_long
                      THEN ExpectedClose(Val(long), Min(q, Abs(Val(long).quantity)), 1,
                                         op'.args.premium)
                      ELSE R(0)
                  short_profit ==
                      IF closes_short
                      THEN ExpectedClose(Val(short), Min(q, Val(short).quantity), -1,
                                         op'.args.short_premium)
                      ELSE R(0)
              IN  /\ (part_long \/ part_short)
                        => RSub(ProfitOf(asset'), ProfitOf(asset))
                              = RAdd(long_profit, short_profit)
                  /\ part_long
                        => LET after == LegOf(asset', op'.args.symbol)
                           IN  /\ Has(after)
                               /\ Val(after).quantity = Val(long).quantity + q
                               /\ UnitCost(Val(after)) = UnitCost(Val(long))
                  /\ part_short
                        => LET after == LegOf(asset', op'.args.short_symbol)
                           IN  /\ Has(after)
                               /\ Val(after).quantity = Val(short).quantity - q
                               /\ UnitCost(Val(after)) = UnitCost(Val(short))
        /\ (/\ structure = "accumulative"
            /\ op'.name = "place_bearish_trade"
            /\ op'.ret = "True"
            /\ Position(asset') > 0)
           => LET k == Position(asset) - Position(asset')
                  unit_cost == RDiv(Val(asset.cost), R(Position(asset)))
              IN  /\ k > 0
                  /\ RSub(ProfitOf(asset'), ProfitOf(asset))
                        = RMul(R(k), RSub(R(op'.args.price), unit_cost))
                  /\ RDiv(Val(asset'.cost), R(Position(asset'))) = unit_cost
      ]_vars

\* A single order has sold part of a long leg.
C4_PartOfLongLegSold ==
    /\ op.name = "single"
    /\ op.ret = "True"
    /\ op.args.direction = "SELL_TO_CLOSE"
    /\ op.args.symbol \in DOMAIN LegDataframe(asset)
    /\ LegDataframe(asset)[op.args.symbol].quantity > 0

\* C5: a single-leg order closing exactly the quantity of a leg deletes the
\* leg and adds closing units x sign x (average cost per unit - premium), less
\* the commission of each contract closed, to the realized profit; a long leg
\* of 3 contracts of total cost 300.00 sold at 1.20 per unit adds 56.55.
C5_FullCloseDeletesLeg ==
    [][ (/\ op'.name = "single"
         /\ Ledgered(op')
         /\ op'.args.direction \in {"BUY_TO_CLOSE", "SELL_TO_CLOSE"}
         /\ Abs(op'.args.quantity) = Abs(LegDataframe(asset)[op'.args.symbol].quantity))
        => LET leg == LegDataframe(asset)[op'.args.symbol]
               gain == RSub(ProfitOf(asset'), ProfitOf(asset))
           IN  /\ op'.args.symbol \notin DOMAIN LegDataframe(asset')
               /\ gain = ExpectedClose(leg, Abs(op'.args.quantity),
                                       Sign(op'.args.quantity), op'.args.premium)
               /\ (leg.quantity = 3 /\ leg.cost = R(30000) /\ op'.args.premium = 120)
                     => gain = R(5655)
      ]_vars

\* The long leg of 3 contracts of total cost 300.00 has been sold at 1.20.
C5_ThreeContractsSold ==
    /\ op.name = "single"
    /\ op.ret = "True"
    /\ op.args.quantity = -3
    /\ op.args.premium = 120
    /\ op.args.direction = "SELL_TO_CLOSE"
    /\ ~Has(asset.leg_db)
    /\ asset.profit = Some(R(5655))

\* C6: for every ledger whose call quantities sum to less than 0,
\* cost_with_margin is infinite, whatever the put legs and the leg costs.
C6_NetShortCallsCostInfinity ==
    (/\ op.name = "cost_with_margin"
     /\ SumOver([s \in DOMAIN LegDataframe(asset) |-> LegDataframe(asset)[s].quantity],
                {s \in DOMAIN LegDataframe(asset) :
                    LegDataframe(asset)[s].contract_type = "CALL"}) < 0)
    => op.args.value.inf

\* cost_with_margin was infinite for a ledger with put legs and calls that
\* are net short.
C6_InfiniteWithPuts ==
    /\ op.name = "cost_with_margin"
    /\ op.args.value.inf
    /\ DOMAIN PutDf(LegDataframe(asset)) # {}
    /\ Longs(CallDf(LegDataframe(asset))) # {}
    /\ QuantitySum(CallDf(LegDataframe(asset))) < 0

\* C7: while the ledger of a ratio spread asset has uncovered short calls,
\* availability completes without raising and reports 0 bullish trades, and
\* place_bullish_trade returns False and leaves the ledger unchanged.
C7_UndefinedRiskBlocksTrades ==
    [][ (structure = "ratio2" /\ QuantitySum(CallDf(LegDataframe(asset))) < 0)
        => /\ op'.name = "availability"
                => /\ op'.ret = "ok"
                   /\ Val(op'.args.specs).bullish_trades = 0
           /\ op'.name = "place_bullish_trade"
                => /\ op'.ret = "False"
                   /\ asset'.leg_db = asset.leg_db
      ]_vars

\* C8: for an asset of budget 0, availability of either positioning completes
\* without raising and reports 0 bullish trades, and place_bullish_trade
\* returns False without placing an order.
C8_ZeroBudgetTolerated ==
    [][ (budget = 0)
        => /\ op'.name = "availability"
                => /\ op'.ret = "ok"
                   /\ Val(op'.args.specs).bullish_trades = 0
           /\ op'.name = "place_bullish_trade"
                => /\ op'.ret = "False"
                   /\ op'.broker = << >>
                   /\ asset'.leg_db = asset.leg_db
                   /\ asset'.position = asset.position
      ]_vars

\* Value of one unit of a leg at expiration with the underlying at price.
Intrinsic(leg, price) ==
    IF leg.contract_type = "PUT" THEN Max(leg.strike - price, 0)
    ELSE Max(price - leg.strike, 0)

\* Loss of the legs of df at expiration with the underlying at price.
LossAt(df, price) ==
    SumOver([s \in DOMAIN df |->
                -df[s].quantity * df[s].shares_per_contract * Intrinsic(df[s], price)],
            DOMAIN df)

\* The loss is linear in the price between 0, the strikes and any price above
\* them, so its maximum over all prices is its maximum over these.
PricePoints(df) ==
    {0} \cup {df[s].strike : s \in DOMAIN df} \cup {1 + Strike("P3"), 1 + Strike("C3")}

WorstCaseLoss(df) ==
    LET worst == CHOOSE x \in PricePoints(df) :
                     \A y \in PricePoints(df) : LossAt(df, x) >= LossAt(df, y)
    IN  LossAt(df, worst)

\* The margin that a returned cost adds to the sum of the leg costs.
MarginOf(leg_df, value) == RSub(value.v, RSumCost(leg_df, DOMAIN leg_df))

\* C9: for every ledger of put legs, and for every ledger of call legs whose
\* quantities sum to 0 or more, the margin term added to the leg costs is at
\* least the worst-case loss of the legs at expiration over all prices of the
\* underlying.
C9_RiskNeverUnderstated ==
    (/\ op.name = "cost_with_margin"
     /\ \/ DOMAIN CallDf(LegDataframe(asset)) = {}
        \/ /\ DOMAIN PutDf(LegDataframe(asset)) = {}
           /\ QuantitySum(CallDf(LegDataframe(asset))) >= 0)
    => /\ ~op.args.value.inf
       /\ RLe(R(WorstCaseLoss(LegDataframe(asset))),
              MarginOf(LegDataframe(asset), op.args.value))

RECURSIVE Covered(_, _, _, _)
\* Strike distance x multiplier of the long legs of long_seq consumed, in
\* order, to cover `remaining` short contracts.
Covered(df, long_seq, remaining, max_call_strike) ==
    IF remaining = 0 \/ long_seq = << >> THEN 0
    ELSE LET leg == df[Head(long_seq)]
             q == Min(remaining, leg.quantity)
         IN  q * Distance(leg, max_call_strike) * leg.shares_per_contract
             + Covered(df, Tail(long_seq), remaining - q, max_call_strike)

\* Liability of one side: short legs less the long legs that cover them.
Liability(df, ascending, max_call_strike) ==
    SumOver([s \in DOMAIN df |->
                Abs(df[s].quantity) * Distance(df[s], max_call_strike)
                * df[s].shares_per_contract],
            Shorts(df))
    - Covered(df, SortByStrike(df, Longs(df), ascending),
              SumOver([s \in DOMAIN df |-> Abs(df[s].quantity)], Shorts(df)),
              max_call_strike)

\* C10: for a ledger whose call quantities sum to 0 or more, cost_with_margin
\* is the sum of the leg costs plus max(0, call liability, put liability),
\* each liability being the short legs' |quantity| x strike distance x
\* multiplier less the same product of the long legs that cover them, taken by
\* descending strike for puts and ascending strike for calls; so the margin
\* term is not negative and the cost is at least the sum of the leg costs.
C10_CostIsPremiumPlusLiability ==
    (/\ op.name = "cost_with_margin"
     /\ QuantitySum(CallDf(LegDataframe(asset))) >= 0)
    => LET leg_df == LegDataframe(asset)
           max_call_strike == MaxCallStrike(CallDf(leg_df))
           call_liability == Liability(CallDf(leg_df), TRUE, max_call_strike)
           put_liability == Liability(PutDf(leg_df), FALSE, max_call_strike)
           premium == RSumCost(leg_df, DOMAIN leg_df)
       IN  /\ ~op.args.value.inf
           /\ op.args.value.v
                 = RAdd(premium, R(Max(0, Max(call_liability, put_liability))))
           /\ RLe(premium, op.args.value.v)

\* The cost was computed for a ledger whose long puts cover more than its
\* short puts are liable for and whose short calls are covered in part.
C10_OverCoveredPuts ==
    /\ op.name = "cost_with_margin"
    /\ ~op.args.value.inf
    /\ Liability(PutDf(LegDataframe(asset)), FALSE, 0) < 0
    /\ Shorts(PutDf(LegDataframe(asset))) # {}
    /\ Liability(CallDf(LegDataframe(asset)), TRUE,
                 MaxCallStrike(CallDf(LegDataframe(asset)))) > 0

\* The operation was a scan of the ledger of a ratio spread asset.
IsScan(o) == o.name \in {"neutralize", "probe"}

\* The last position of symbol s in the sequence of visited legs, 0 if none.
LastVisit(visited, s) ==
    IF \E i \in 1..Len(visited) : visited[i] = s
    THEN CHOOSE i \in 1..Len(visited) :
             visited[i] = s /\ \A j \in (i + 1)..Len(visited) : visited[j] # s
    ELSE 0

Flat(a) ==
    /\ ~Has(a.leg_db)
    /\ ~Has(a.position)

\* C12: for the ratio spread and the accumulative positioning, when
\* neutralize returns True the asset holds no leg and no position after the
\* call, and when a leg or a position is left after the call neutralize has
\* returned False.
C12_NeutralizeTrueOnlyWhenFlat ==
    [][ (op'.name = "neutralize")
        => /\ op'.ret = "True" => Flat(asset')
           /\ (DOMAIN LegDataframe(asset') # {} \/ Position(asset') # 0)
                 => op'.ret = "False"
      ]_vars

\* neutralize has closed the legs of a ratio spread asset and returned True.
C12_LegsClosedAndFlat ==
    /\ structure = "ratio2"
    /\ op.name = "neutralize"
    /\ op.ret = "True"
    /\ op.args.adjusted # {}
    /\ Flat(asset)

\* Every broker call of the operation was accepted.
BrokerAcceptedAll(o) == \A i \in 1..Len(o.broker) : o.broker[i].ok

\* The contract of leg s has reached its expiration on day t.
Expired(s, t) == t >= Opex(s)

\* C13: when every leg of the ledger of a ratio spread asset is at or past
\* its expiration and the broker accepts every order, one call of neutralize
\* closes every leg and returns True; neutralize leaves a leg that has not
\* expired as it is; and it returns True only when every leg it found had
\* expired and none is left.
C13_NeutralizeClosesExpiredLegs ==
    [][ (structure = "ratio2" /\ op'.name = "neutralize")
        => LET before == LegDataframe(asset)
           IN  /\ ((\A s \in DOMAIN before : Expired(s, now)) /\ BrokerAcceptedAll(op'))
                     => (op'.ret = "True" /\ ~Has(asset'.leg_db))
               /\ \A s \in DOMAIN before :
                     ~Expired(s, now) => LegOf(asset', s) = LegOf(asset, s)
               /\ op'.ret = "True"
                     => /\ \A s \in DOMAIN before : Expired(s, now)
                        /\ DOMAIN LegDataframe(asset') = {}
      ]_vars

\* neutralize has returned False leaving a call that had not expired, the
\* day has passed, and a second call has closed the call and returned True.
C13_ClosedOnLaterCall ==
    /\ structure = "ratio2"
    /\ op.name = "neutralize"
    /\ op.ret = "True"
    /\ op.args.adjusted = {"C1"}
    /\ now = MaxNow
    /\ steps = 3

\* C15: probe of a ratio spread asset creates no leg and changes no leg that
\* it leaves in the ledger; the legs it removes are short legs whose ask is at
\* most MAX_BUY_MARGIN_PREMIUM, each bought back in one order for its whole
\* quantity; long legs are left as they are; and when the broker accepts
\* every order no such short leg is left.
C15_ProbeOnlyBuysBackShorts ==
    [][ (structure = "ratio2" /\ op'.name = "probe")
        => LET before == LegDataframe(asset)
               after == LegDataframe(asset')
           IN  /\ DOMAIN after \subseteq DOMAIN before
               /\ \A s \in DOMAIN after : after[s] = before[s]
               /\ \A s \in DOMAIN before \ DOMAIN after :
                     /\ before[s].quantity < 0
                     /\ market.option_chain[s].ask <= MAX_BUY_MARGIN_PREMIUM
               /\ \A i \in 1..Len(op'.broker) :
                     /\ op'.broker[i].direction = "BUY_TO_CLOSE"
                     /\ op'.broker[i].quantity = -before[op'.broker[i].symbol].quantity
               /\ BrokerAcceptedAll(op')
                     => \A s \in DOMAIN after :
                           ~(after[s].quantity < 0
                             /\ market.option_chain[s].ask <= MAX_BUY_MARGIN_PREMIUM)
      ]_vars

\* probe has bought back a short put of 2 contracts and left a long leg and
\* a short leg whose ask is above MAX_BUY_MARGIN_PREMIUM.
C15_ShortBoughtBack ==
    /\ structure = "ratio2"
    /\ op.name = "probe"
    /\ Len(op.broker) = 1
    /\ op.broker[1].quantity = 2
    /\ op.broker[1].ok
    /\ op.args.adjusted # {}
    /\ Longs(LegDataframe(asset)) # {}
    /\ Shorts(LegDataframe(asset)) # {}

\* C14: probe of an accumulative asset never sells; after a probe that buys,
\* position x ask price is at most the long budget plus the realized profit;
\* and probe buys nothing when the fraction of that budget held at the ask,
\* position x ask price / (long budget + realized profit), is at or above the
\* drawdown 1 - ask price / all-time high, in particular when the value of
\* the position at the ask is at or above the budget.
C14_ProbeStaysWithinBudget ==
    [][ (structure = "accumulative" /\ op'.name = "probe")
        => LET ask_price == op'.args.price
               long == RAdd(R(budget), ProfitOf(asset))
               held == R(Position(asset) * ask_price)
               bought == Position(asset') - Position(asset)
               ath == IF Has(asset.ath) /\ Val(asset.ath) > ask_price
                      THEN Val(asset.ath) ELSE ask_price
               drawdown == RSub(R(1), Rat(ask_price, ath))
           IN  /\ bought >= 0
               /\ bought > 0 => RLe(R(Position(asset') * ask_price), long)
               /\ (RLt(R(0), long) /\ RLe(drawdown, RDiv(held, long))) => bought = 0
               /\ RLe(long, held) => bought = 0
      ]_vars

\* probe has bought shares after the market fell from its all-time high.
C14_BoughtIntoDrawdown ==
    /\ structure = "accumulative"
    /\ op.name = "probe"
    /\ Len(op.broker) = 1
    /\ op.broker[1].ok
    /\ op.broker[1].direction = "BUY"
    /\ Position(asset) >= 1
    /\ Val(asset.ath) > op.args.price

\* The asset has no capacity left for a bullish trade: the cost with margin
\* of the ledger is at or above the long budget, or the value of the position
\* at the ask is at or above the long budget plus the realized profit.
NoCapacity ==
    IF structure = "ratio2"
    THEN \/ TotalCostValue(LegDataframe(asset)).inf
         \/ RLe(R(budget), TotalCostValue(LegDataframe(asset)).v)
    ELSE RLe(RAdd(R(budget), ProfitOf(asset)),
             R(Position(asset) * market.quote.ask))

\* C16: place_bullish_trade of either positioning, called while the
\* remaining capacity is zero or negative, returns False, sends nothing to the
\* broker and leaves the ledger and the position unchanged.
C16_NoTradeWithoutCapacity ==
    [][ (op'.name = "place_bullish_trade" /\ NoCapacity)
        => /\ op'.ret = "False"
           /\ op'.broker = << >>
           /\ asset'.leg_db = asset.leg_db
           /\ asset'.position = asset.position
      ]_vars

\* C17: when place_bullish_trade of a ratio spread asset returns False, the
\* leg ledger is what it was before the call, also when the broker rejects the
\* first or the second of the two spread orders of the backratio.
C17_FailedTradeLeavesLedger ==
    [][ (structure = "ratio2" /\ op'.name = "place_bullish_trade"
         /\ op'.ret = "False")
        => asset'.leg_db = asset.leg_db
      ]_vars

\* Cost with margin of a ledger whose calls are not net short: the leg costs
\* plus the larger side liability, if positive.
CostOfLedger(leg_df) ==
    RAdd(RSumCost(leg_df, DOMAIN leg_df),
         R(Max(0, Max(Liability(CallDf(leg_df), TRUE, MaxCallStrike(CallDf(leg_df))),
                      Liability(PutDf(leg_df), FALSE, 0)))))

\* C19: availability of a ratio spread asset, called after any orders, on a
\* ledger whose calls are not net short and with a budget or a leg, returns
\* as bullish_trades the whole part of (long budget - cost with margin of the
\* ledger at that call) / denomination, in dollars; with denomination 1, cost
\* with margin 0 and a long budget of 500.00 it returns 500.
C19_AvailabilityFollowsLedger ==
    [][ (/\ structure = "ratio2"
         /\ op'.name = "availability"
         /\ QuantitySum(CallDf(LegDataframe(asset))) >= 0
         /\ (budget # 0 \/ DOMAIN LegDataframe(asset) # {}))
        => LET cost == CostOfLedger(LegDataframe(asset))
           IN  /\ op'.ret = "ok"
               /\ asset'.leg_db = asset.leg_db
               /\ Val(op'.args.specs).bullish_trades
                     = RInt(RDiv(RSub(R(budget), cost),
                                 R(100 * Positioning.denomination)))
               /\ (budget = 50000 /\ cost = R(0) /\ Positioning.denomination = 1)
                     => Val(op'.args.specs).bullish_trades = 500
      ]_vars

\* availability was computed after a backratio was opened, and reports
\* fewer trades than the budget alone allows.
C19_AfterBackratio ==
    /\ structure = "ratio2"
    /\ op.name = "availability"
    /\ op.ret = "ok"
    /\ budget = 50000
    /\ Longs(PutDf(LegDataframe(asset))) # {}
    /\ Shorts(PutDf(LegDataframe(asset))) # {}
    /\ Has(asset.last_trade_price)
    /\ Val(op.args.specs).bullish_trades < 500
    /\ Val(op.args.specs).bullish_trades > 0

\* The shares held, 0 while the asset has no position.
Held(a) == IF Has(a.position) THEN Val(a.position) ELSE 0

\* C18: availability of an accumulative asset with a dollar budget whose
\* short side is 0 returns as bullish_trades the whole part of ((long budget +
\* realized profit) / ask price - position) and as bearish_trades the
\* position; for a long budget of 10,000.00, an ask of 50.00, no position and
\* no all-time high recorded, bullish_trades is 200 and bearish_trades is 0.
C18_AccumulativeAvailability ==
    [][ (/\ structure = "accumulative"
         /\ op'.name = "availability"
         /\ RAdd(R(budget), ProfitOf(asset)) # R(0))
        => /\ op'.ret = "ok"
           /\ Val(op'.args.specs).bullish_trades
                 = RInt(RSub(RDiv(RAdd(R(budget), ProfitOf(asset)),
                                  R(market.quote.ask)),
                             R(Held(asset))))
           /\ Val(op'.args.specs).bearish_trades = Held(asset)
           /\ (/\ budget = 1000000
               /\ market.quote.ask = 5000
               /\ ~Has(asset.position)
               /\ ~Has(asset.ath)
               /\ ProfitOf(asset) = R(0))
                 => /\ Val(op'.args.specs).bullish_trades = 200
                    /\ Val(op'.args.specs).bearish_trades = 0
      ]_vars

\* availability was computed for a long budget of 10,000.00, an ask of
\* 50.00 and no position, and reports 200 bullish trades.
C18_TwoHundredShares ==
    /\ op.name = "availability"
    /\ op.ret = "ok"
    /\ budget = 1000000
    /\ market.quote.ask = 5000
    /\ ~Has(asset.position)
    /\ ~Has(asset.profit)
    /\ Val(op.args.specs).bullish_trades = 200
    /\ Val(op.args.specs).bearish_trades = 0

\* C20: for a budget given as a list, with short the smaller and long the
\* larger of its two amounts: a list [a, b] with a <= 0 <= b and a < b
\* resolves to (short, long) = (a, b); a list that has not exactly two
\* amounts, or whose short is above 0, or whose long is below 0, or whose
\* short is not below its long, as in [0, 0], resolves to no budget.
C20_BudgetRange ==
    (op.name = "budget")
    => /\ (/\ Len(budget) = 2
           /\ budget[1] <= 0 /\ 0 <= budget[2] /\ budget[1] < budget[2])
             => op.args.specs
                   = Some([unit |-> "DOLLAR", amount |-> <<budget[1], budget[2]>>])
       /\ (\/ Len(budget) # 2
           \/ LET short == IF budget[1] <= budget[2] THEN budget[1] ELSE budget[2]
                  long == IF budget[1] <= budget[2] THEN budget[2] ELSE budget[1]
              IN  short > 0 \/ long < 0 \/ short >= long)
             => op.args.specs = None

\* The list [-1, 2] was resolved to the budget (-1, 2).
C20_RangeResolved ==
    /\ op.name = "budget"
    /\ budget = <<-1, 2>>
    /\ op.args.specs = Some([unit |-> "DOLLAR", amount |-> <<-1, 2>>])

\* C21: a list of two amounts whose first amount is greater than its second,
\* as in [100, -50], resolves to no budget.
C21_ReversedRangeRejected ==
    (op.name = "budget" /\ Len(budget) = 2 /\ budget[1] > budget[2])
    => op.args.specs = None

\* C22: budget of a scalar amount v resolves to (short, long) = (0, v) for
\* v > 0, to (v, 0) for v < 0 and to (0, 0) for v = 0, without failing; the
\* unit is DOLLAR for a bare amount and the unit named for an amount wrapped
\* with a unit; an amount wrapped without a unit resolves to no budget.
C22_ScalarBudget ==
    (op.name = "budget" /\ budget.present /\ ~budget.is_list)
    => LET v == budget.amount[1]
           amount == IF v > 0 THEN <<0, v>> ELSE IF v < 0 THEN <<v, 0>> ELSE <<0, 0>>
       IN  /\ ~budget.wrapped
              => /\ op.ret = "ok"
                 /\ op.args.specs = Some([unit |-> "DOLLAR", amount |-> amount])
           /\ (budget.wrapped /\ budget.unit = Some("dollar"))
              => /\ op.ret = "ok"
                 /\ op.args.specs = Some([unit |-> "DOLLAR", amount |-> amount])
           /\ (budget.wrapped /\ budget.unit = Some("share"))
              => /\ op.ret = "ok"
                 /\ op.args.specs = Some([unit |-> "SHARE", amount |-> amount])
           /\ (budget.wrapped /\ budget.unit = None)
              => /\ op.ret = "None"
                 /\ op.args.specs = None

\* The amount -500.00 wrapped with the unit share was resolved to a short
\* budget in shares.
C22_ShortShares ==
    /\ op.name = "budget"
    /\ budget = BudgetEntry(TRUE, TRUE, Some("share"), FALSE, <<-50000>>)
    /\ op.args.specs = Some([unit |-> "SHARE", amount |-> <<-50000, 0>>])

\* C23: for an asset whose budget entry resolves to no budget, availability,
\* place_bullish_trade and place_bearish_trade return their failure instead
\* of raising, send no order to the broker and leave the asset as it was.
C23_InvalidBudgetBlocks ==
    [][(/\ op'.name \in {"availability", "place_bullish_trade", "place_bearish_trade"}
        /\ AssetBudget(budget).ret = "None")
       => /\ op'.ret \in {"None", "False"}
          /\ op'.broker = << >>
          /\ asset' = asset]_vars

\* C24: market_value of either positioning returns the pair of the mark
\* value and the mark value less the net cost plus the realized profit of
\* the asset, the legs of a ledger being valued at the price that closes
\* them: short legs at the ask plus the commission per share, long legs at
\* the bid less it.
C24_MarketValueWithProfit ==
    (op.name = "market_value")
    => LET leg_df == LegDataframe(asset)
           mark_value == IF structure = "ratio2"
                         THEN SumMarketValue(leg_df, market.option_chain, DOMAIN leg_df)
                         ELSE R(Position(asset) * market.quote.mark)
           net_cost == IF structure = "ratio2"
                       THEN RSumCost(leg_df, DOMAIN leg_df)
                       ELSE IF Has(asset.cost) THEN Val(asset.cost) ELSE R(0)
       IN  op.args.value
              = <<mark_value, RAdd(RSub(mark_value, net_cost), ProfitOf(asset))>>

\* C30: the queries availability, cost_per_unit, cost_with_margin, delta and
\* market_value leave every runtime field of the asset as it was, an absent
\* field staying absent.
C30_QueriesLeaveAsset ==
    [][(op'.name \in {"availability", "cost_per_unit", "cost_with_margin", "delta",
                      "market_value"})
       => asset' = asset]_vars

\* C26: a spread order whose buy leg and sell leg are the same contract, or
\* contracts of different types, returns False, sends nothing to the broker
\* and leaves ledger, profit and slippage as they were.
C26_DegenerateSpreadRejected ==
    [][(/\ op'.name = "spread"
        /\ \/ op'.args.symbol = op'.args.short_symbol
           \/ ContractType(op'.args.symbol) # ContractType(op'.args.short_symbol))
       => /\ op'.ret = "False"
          /\ op'.broker = << >>
          /\ asset'.leg_db = asset.leg_db
          /\ asset'.profit = asset.profit
          /\ asset'.slippage = asset.slippage]_vars

\* The direction of a trade of the given sign on contract s, for the ledger
\* leg_df: opening when the ledger has no leg of s or a leg of the sign of
\* the trade, closing when it has a leg of the other sign.
DirectionFor(leg_df, s, sign) ==
    IF s \notin DOMAIN leg_df \/ Sign(leg_df[s].quantity) = sign
    THEN IF sign > 0 THEN "BUY_TO_OPEN" ELSE "SELL_TO_OPEN"
    ELSE IF sign > 0 THEN "BUY_TO_CLOSE" ELSE "SELL_TO_CLOSE"

\* C25: the order of a single-leg trade, and each of the two leg orders of a
\* spread, has the direction BUY_TO_OPEN or SELL_TO_OPEN when the ledger has
\* no leg of the contract or a leg of the sign of the trade, and BUY_TO_CLOSE
\* or SELL_TO_CLOSE when it has a leg of the other sign, the ledger being
\* the one the order was called with.
C25_OrderDirection ==
    [][/\ (op'.name = "single" /\ op'.args.quantity # 0)
          => /\ op'.args.direction
                   = DirectionFor(LegDataframe(asset), op'.args.symbol,
                                  Sign(op'.args.quantity))
             /\ \A i \in DOMAIN op'.broker :
                   op'.broker[i].direction
                      = DirectionFor(LegDataframe(asset), op'.broker[i].symbol,
                                     Sign(op'.args.quantity))
       /\ (op'.name = "spread")
          => \A i \in DOMAIN op'.broker :
                /\ op'.broker[i].direction
                      = DirectionFor(LegDataframe(asset), op'.broker[i].symbol, 1)
                /\ op'.broker[i].short_direction
                      = DirectionFor(LegDataframe(asset), op'.broker[i].short_symbol, -1)
      ]_vars

\* A spread was sent to the broker that buys back a short leg and opens
\* another short leg.
C25_SpreadClosesAndOpens ==
    /\ op.name = "spread"
    /\ op.broker # << >>
    /\ op.broker[1].direction = "BUY_TO_CLOSE"
    /\ op.broker[1].short_direction = "SELL_TO_OPEN"

\* C29: an order whose backend call falls outside the normal market hours
\* is not posted to the broker: the backend returns False, and the order of
\* an asset that trades returns False and leaves the ledger as it was.
C29_NoPostOutsideMarketHours ==
    [][(/\ op'.name \in {"single", "spread", "place_bullish_trade"}
        /\ ~op'.args.normal_market_hours)
       => /\ op'.args.posted = << >>
          /\ \A i \in DOMAIN op'.broker : ~op'.broker[i].ok
          /\ (enable_trades /\ op'.broker # << >>)
             => /\ op'.ret = "False"
                /\ asset'.leg_db = asset.leg_db
                /\ asset'.position = asset.position
                /\ asset'.cost = asset.cost
                /\ asset'.profit = asset.profit]_vars

\* A spread of an asset that trades reached the backend outside the normal
\* market hours and was turned down.
C29_SpreadTurnedDown ==
    /\ op.name = "spread"
    /\ enable_trades
    /\ ~op.args.normal_market_hours
    /\ op.broker # << >>
    /\ op.args.posted = << >>
    /\ op.ret = "False"

\* C27: when the process shuts down, the assets are stored before any stream
\* is left: every disconnect of the shutdown comes after the store of the
\* assets.
C27_StoredBeforeDisconnect ==
    \A i \in DOMAIN engine.shutdown :
        engine.shutdown[i] = "disconnect_from_stream"
        => \E j \in 1..(i - 1) : engine.shutdown[j] = "store_assets"

\* The runs of a callback for the event processed last, as places of the
\* log.
Ran(cb) == { i \in DOMAIN engine.log : engine.log[i][1] = cb }

\* C28: while a quote event is processed, an observer has run only after
\* every patch of the event was merged into the quote database; the
\* observers run in the order of registration, the strategies of all active
\* assets before the probe of any asset, each callback going through the
\* assets in order and running once per asset, with no run of one callback
\* between two runs of the other.
C28_MergedThenObserversInOrder ==
    (engine.pc \in {"merging", "callbacks"} \/ engine.log # << >>)
    => /\ engine.pc = "merging" => engine.log = << >>
       /\ engine.log # << >>
          => /\ engine.patches = << >>
             /\ \A k \in DOMAIN engine.tickers :
                   engine.quote_db[engine.tickers[k]] = engine.event
       /\ \A i \in Ran("cb_run_probes"), j \in Ran("cb_run_strategies") : j < i
       /\ Ran("cb_run_probes") # {}
          => { engine.log[j][2] : j \in Ran("cb_run_strategies") } = engine.active
       /\ \A i \in DOMAIN engine.log, j \in DOMAIN engine.log :
             (i < j /\ engine.log[i][1] = engine.log[j][1])
             => engine.log[i][2] < engine.log[j][2]

\* An event of two patches was merged and both callbacks ran for both
\* assets.
C28_BothObserversRan ==
    /\ engine.pc = "listening"
    /\ Len(engine.tickers) = 2
    /\ engine.log = << <<"cb_run_strategies", 1>>, <<"cb_run_strategies", 2>>,
                       <<"cb_run_probes", 1>>, <<"cb_run_probes", 2>> >>

\* C31: whenever the driver applies the callback to a leg, the row it hands
\* over is the entry that the ledger holds for the leg at that moment, with
\* the quantity and the cost of the ledger, whatever the adjustments made
\* earlier in the scan.
C31_NoStaleRow ==
    op.name = "_scan_and_adjust"
    => \A i \in DOMAIN op.args.handed :
          /\ Has(op.args.handed[i].ledger)
          /\ Val(op.args.handed[i].ledger).quantity
                = op.args.handed[i].position_df.quantity
          /\ Val(op.args.handed[i].ledger).cost = op.args.handed[i].position_df.cost

\* C32: a single-leg order that closes a leg and asks for more contracts
\* than the leg holds adds to the realized profit the profit of closing the
\* contracts held only, and leaves a leg of the sign of the order holding
\* the remainder, whose cost is the remainder x (multiplier x premium + sign
\* x commission): nothing of the cost of the closed leg is left in it.
C32_OverCloseFlipsLeg ==
    [][ (/\ op'.name = "single"
         /\ Ledgered(op')
         /\ op'.args.direction \in {"BUY_TO_CLOSE", "SELL_TO_CLOSE"}
         /\ Abs(op'.args.quantity) > Abs(LegDataframe(asset)[op'.args.symbol].quantity))
        => LET leg == LegDataframe(asset)[op'.args.symbol]
               after == LegOf(asset', op'.args.symbol)
               quantity == op'.args.quantity
               remainder == quantity + leg.quantity
           IN  /\ RSub(ProfitOf(asset'), ProfitOf(asset))
                     = ExpectedClose(leg, Min(Abs(quantity), Abs(leg.quantity)),
                                     Sign(quantity), op'.args.premium)
               /\ Has(after)
               /\ Val(after).quantity = remainder
               /\ Sign(remainder) = Sign(quantity)
               /\ Val(after).cost
                     = R(remainder * (UNITS_PER_CONTRACT * op'.args.premium
                                      + Sign(quantity) * COMMISSION_PER_CONTRACT))
      ]_vars

\* An order to buy has closed a short leg and left a long leg of the
\* contract.
C32_ShortLegOverClosed ==
    /\ op.name = "single"
    /\ op.ret = "True"
    /\ op.args.direction = "BUY_TO_CLOSE"
    /\ op.args.symbol \in DOMAIN LegDataframe(asset)
    /\ LegDataframe(asset)[op.args.symbol].quantity > 0

\* The operation was a sale of shares of the accumulative position held in
\* `a`.
IsSale(o, a) ==
    /\ o.name \in {"place_bearish_trade", "neutralize"}
    /\ Position(a) > 0

\* C33: a sale of shares of an accumulative position that returns True was
\* made at a bid not below the compounded cost per share, and so not below
\* the average cost per share; the realized profit never decreases, whatever
\* the operation; and a sale at a bid below the compounded cost per share
\* returns False and leaves position, cost, profit and last trade price as
\* they were.
C33_NoSaleBelowCost ==
    [][ structure = "accumulative"
        => /\ RLe(ProfitOf(asset), ProfitOf(asset'))
           /\ (IsSale(op', asset) /\ op'.ret = "True")
              => /\ RLe(Cdca(asset, now, op'.args.growth), R(op'.args.price))
                 /\ RLe(AccCostPerUnit(asset), R(op'.args.price))
                 /\ Position(asset') < Position(asset)
           /\ (IsSale(op', asset)
               /\ RLt(R(op'.args.price),
                      RMul(AccCostPerUnit(asset),
                           IF Val(asset.acquired_at) = R(now) THEN R(1)
                           ELSE op'.args.growth)))
              => /\ op'.ret = "False"
                 /\ asset'.position = asset.position
                 /\ asset'.cost = asset.cost
                 /\ asset'.profit = asset.profit
                 /\ asset'.last_trade_price = asset.last_trade_price
      ]_vars

\* Shares bought at the lower quotes were sold at the higher bid, and the
\* realized profit is positive.
C33_SoldAboveCost ==
    /\ structure = "accumulative"
    /\ op.name \in {"place_bearish_trade", "neutralize"}
    /\ op.ret = "True"
    /\ RLt(R(0), ProfitOf(asset))

\* C34: a trade of the strategy (place_bullish_trade, place_bearish_trade)
\* on an asset that holds a position and a last trade price is executed only
\* at a price that keeps the minimum offset from the last trade price, the
\* offset being alpha x price x vacancy with the vacancy between 0 and 1: a
\* buy at an ask of at most the last trade price less the offset, and so
\* never above the price of the trade before it, a sale at a bid of at least
\* the last trade price plus the offset.
C34_FollowsLastTrade ==
    [][ (/\ structure = "accumulative"
         /\ op'.name \in {"place_bullish_trade", "place_bearish_trade"}
         /\ op'.ret = "True"
         /\ Position(asset) # 0
         /\ Has(asset.last_trade_price))
        => LET specs == AccAvailability(asset, Some(Budget(budget)), market.quote).specs
               buy == op'.name = "place_bullish_trade"
               price == op'.args.price
               vacancy == IF buy THEN specs.bullish_vacancy ELSE specs.bearish_vacancy
               min_price_offset == RMul(RMul(FollowLastTradeAlpha, R(price)), vacancy)
               last_trade_price == R(Val(asset.last_trade_price))
           IN  /\ RLe(R(0), vacancy)
               /\ RLe(vacancy, R(1))
               /\ buy => /\ RLe(R(price), RSub(last_trade_price, min_price_offset))
                         /\ RLe(R(price), last_trade_price)
               /\ ~buy => RLe(RAdd(last_trade_price, min_price_offset), R(price))
      ]_vars

\* Cumulative slippage, 0 while the asset has none.
SlippageOf(a) == IF Has(a.slippage) THEN Val(a.slippage) ELSE R(0)

\* Half the bid/ask spread of contract s, per contract.
HalfSpread(chain, s) == Rat((chain[s].ask - chain[s].bid) * UNITS_PER_CONTRACT, 2)

\* C35: a single-leg order of quantity q that returns True adds (half the
\* bid/ask spread of the contract x units per contract + commission per
\* contract) x |q| to the cumulative slippage; a spread order of quantity q
\* that returns True adds (the half spreads of both legs x units per contract
\* + twice the commission) x q; an order that returns False leaves the
\* slippage as it was; and no operation on the asset decreases it.
C35_SlippageAccumulates ==
    [][ structure = "ratio2"
        => /\ RLe(SlippageOf(asset), SlippageOf(asset'))
           /\ (op'.name = "single" /\ op'.ret = "True")
              => RSub(SlippageOf(asset'), SlippageOf(asset))
                    = RMul(RAdd(HalfSpread(market.option_chain, op'.args.symbol),
                                R(COMMISSION_PER_CONTRACT)),
                           R(Abs(op'.args.quantity)))
           /\ (op'.name = "spread" /\ op'.ret = "True")
              => RSub(SlippageOf(asset'), SlippageOf(asset))
                    = RMul(RAdd(RAdd(HalfSpread(market.option_chain, op'.args.symbol),
                                     HalfSpread(market.option_chain,
                                                op'.args.short_symbol)),
                                R(2 * COMMISSION_PER_CONTRACT)),
                           R(op'.args.quantity))
           /\ (IsOrder(op') /\ op'.ret = "False")
              => asset'.slippage = asset.slippage
      ]_vars

\* Two orders have returned True, the second a single-leg order of two
\* contracts, and the slippage holds more than that order added.
C35_SlippageOfTwoOrders ==
    /\ op.name = "single"
    /\ op.ret = "True"
    /\ Abs(op.args.quantity) = 2
    /\ RLt(RMul(RAdd(HalfSpread(market.option_chain, op.args.symbol),
                     R(COMMISSION_PER_CONTRACT)), R(2)),
           SlippageOf(asset))

\* C36: a place_bullish_trade that returns True on a ledger without legs
\* leaves one short put leg of -2 x denomination, long put legs totalling
\* +2 x denomination, a net put quantity of 0, no call leg, and
\* last_trade_price at the underlying mark; a place_bullish_trade that
\* returns False leaves last_trade_price as it was.
C36_BackratioOnFlatLedger ==
    [][ (structure = "ratio2" /\ op'.name = "place_bullish_trade")
        => LET put_df == PutDf(LegDataframe(asset'))
               call_df == CallDf(LegDataframe(asset'))
               quantity == [s \in DOMAIN put_df |-> put_df[s].quantity]
               d == Positioning.denomination
           IN  /\ (op'.ret = "True" /\ ~Has(asset.leg_db))
                  => /\ Cardinality(Shorts(put_df)) = 1
                     /\ \A s \in Shorts(put_df) : put_df[s].quantity = -2 * d
                     /\ SumOver(quantity, Longs(put_df)) = 2 * d
                     /\ QuantitySum(put_df) = 0
                     /\ DOMAIN call_df = {}
                     /\ asset'.last_trade_price = Some(market.quote.mark)
               /\ op'.ret = "False"
                  => asset'.last_trade_price = asset.last_trade_price
      ]_vars

\* A backratio has been opened on an empty ledger with the financed long put
\* and the margin put on two different strikes.
C36_BackratioOpened ==
    /\ structure = "ratio2"
    /\ op.name = "place_bullish_trade"
    /\ op.ret = "True"
    /\ DOMAIN CallDf(LegDataframe(asset)) = {}
    /\ QuantitySum(PutDf(LegDataframe(asset))) = 0
    /\ Cardinality(Longs(PutDf(LegDataframe(asset)))) = 2
    /\ Cardinality(Shorts(PutDf(LegDataframe(asset)))) = 1
    /\ asset.last_trade_price = Some(market.quote.mark)

RECURSIVE CashOutlay(_)
\* The signed cash outlay of the traded legs: signed quantity x multiplier x
\* traded premium, plus one commission per contract traded.
CashOutlay(trades) ==
    IF trades = << >> THEN 0
    ELSE Head(trades).quantity * UNITS_PER_CONTRACT * Head(trades).premium
         + Abs(Head(trades).quantity) * COMMISSION_PER_CONTRACT
         + CashOutlay(Tail(trades))

\* C37: from an asset without legs and with zero profit, after any sequence
\* of successful single-leg orders and spread orders on two different legs,
\* the sum of the leg costs minus the realized profit equals the signed cash
\* outlay of all the orders.
C37_CashConservation ==
    RSub(RSumCost(LegDataframe(asset), DOMAIN LegDataframe(asset)), ProfitOf(asset))
        = R(CashOutlay(op.args.trades))

\* Three orders have returned True, the second closing part of the leg the
\* first opened and the third over-closing what was left of it, so that a
\* profit is realized and the leg has changed sign.
C37_OpenedClosedOverClosed ==
    /\ Len(op.args.trades) = 3
    /\ LET t == op.args.trades
       IN  /\ t[1].symbol = t[2].symbol /\ t[2].symbol = t[3].symbol
           /\ t[1].quantity = 2 /\ t[2].quantity = -1 /\ t[3].quantity = -2
           /\ Has(LegOf(asset, t[1].symbol))
           /\ Val(LegOf(asset, t[1].symbol)).quantity = -1
    /\ ProfitOf(asset) # R(0)

\* C38: the accumulative asset holds position, cost and acquired_at either
\* all three or none of them, and a position it holds is strictly positive.
C38_FlatOrOpen ==
    structure = "accumulative"
    => /\ Has(asset.position) <=> Has(asset.cost)
       /\ Has(asset.position) <=> Has(asset.acquired_at)
       /\ Has(asset.position) => Val(asset.position) > 0

\* A sale has returned True and left one share of a larger position, with
\* its cost and its time of acquisition.
C38_SoldDownToOneShare ==
    /\ structure = "accumulative"
    /\ op.name = "place_bearish_trade"
    /\ op.ret = "True"
    /\ asset.position = Some(1)
    /\ Has(asset.cost)
    /\ Has(asset.acquired_at)

\* The ledger holds a put leg that expires one day or more from t.
HoldsDurationPut(a, t) ==
    \E s \in DOMAIN LegDataframe(a) :
        /\ LegDataframe(a)[s].contract_type = "PUT"
        /\ LegDataframe(a)[s].opex >= t + 1

\* C39: a place_bullish_trade on a ledger that holds a put leg expiring one
\* day or more from now returns False and leaves the asset as it was.
C39_OneDurationPosition ==
    [][ (op'.name = "place_bullish_trade"
         /\ HoldsDurationPut(asset, now))
        => /\ op'.ret = "False"
           /\ asset' = asset
      ]_vars

\* A place_bullish_trade with market data and trades available has returned
\* False on a ledger that holds the backratio of an earlier one, unexpired.
C39_SecondBackratioRefused ==
    /\ op.name = "place_bullish_trade"
    /\ op.ret = "False"
    /\ op.args.has_data
    /\ HoldsDurationPut(asset, now)
    /\ QuantitySum(PutDf(LegDataframe(asset))) = 0
    /\ Cardinality(Shorts(PutDf(LegDataframe(asset)))) = 1
    /\ LET av == Availability(asset, Some(Budget(budget)))
       IN  av.ret = "ok" /\ av.specs.bullish_trades # 0

\* C40: every step of the public operations from an asset without legs
\* leaves a ledger of PUT legs only, so that the net call quantity is never
\* negative, and a place_bearish_trade returns False and leaves the asset as
\* it was.
C40_PutLegsOnly ==
    [][ /\ \A s \in DOMAIN LegDataframe(asset') :
               LegDataframe(asset')[s].contract_type = "PUT"
        /\ ~UndefinedRisk(LegDataframe(asset'))
        /\ op'.name = "place_bearish_trade"
           => /\ op'.ret = "False"
              /\ op'.broker = << >>
              /\ asset' = asset
      ]_vars

\* A place_bearish_trade has returned False on a ledger that holds the three
\* put legs of a backratio.
C40_BearishTradeOnBackratio ==
    /\ op.name = "place_bearish_trade"
    /\ op.ret = "False"
    /\ Cardinality(DOMAIN PutDf(LegDataframe(asset))) = 3
    /\ DOMAIN CallDf(LegDataframe(asset)) = {}

====
